---- MODULE Spec2Model ----
(***************************************************************************)
(* A model of gbfs-validator-go: the version policy (pkg/version), the     *)
(* lenient coercion pipeline (pkg/coerce), the structural and              *)
(* cross-reference validator and the orchestration of one Validate run     *)
(* (pkg/validator), and the fetch outcomes of pkg/fetcher.                  *)
(***************************************************************************)
EXTENDS Integers, Sequences, FiniteSets, TLC

VARIABLES
    \* --- version policy queries (pkg/version) ---
    pVersion,       \* the version string a policy query is made with
    pOpts,          \* the deployment flags [Docked, Freefloating]
    pReqs,          \* result of GetFileRequirements, or <<>> before the query
    pName,          \* result of GetVehicleStatusFileName, or Unset
    pGbfs,          \* result of IsGBFSRequired, or Unset
    \* --- one document through the coercer and the structural validator ---
    cPhase,         \* "idle", "input", "strict", "lenient", "again"
    cType,          \* the feed type tag
    cOpts,          \* the coerce.Options of the Coercer
    cIn,            \* the bytes of the document
    cStrict,        \* issues of validateFileStructure on the bytes as fetched
    cFirst,         \* result of Coerce on the bytes
    cLenient,       \* issues of validateFileStructure on the coerced bytes
    cSecond,        \* result of Coerce on the output of the first call
    \* --- one call of Validate ---
    vPc,            \* "idle", "start", "returned"
    vOpts,          \* the Options of the Validator
    vUrlIsGbfsJson, \* the URL given to Validate ends with "gbfs.json"
    vManifestReqs,  \* the responses to the requests for the manifest, in order
    vGbfs,          \* what validateGBFS returned: [result, feed, err]
    vResp,          \* the response to the request for each document requested
    vFileResults,   \* the result set validateFiles returned
    vResults,       \* the result set after crossValidate
    vReport,        \* the ValidationResult returned
    \* --- the workers of validateFiles and the return of Validate ---
    wPhase,         \* "idle", "running", "returned"
    wIn,            \* validated version, flags, lenient mode and feedURLs
    wWorkers,       \* per requested document: the worker's pc and locals
    wUnlisted,      \* the workers of the documents feedURLs lacks have published
    wLog,           \* c.log of the Coercer the workers share
    wResults,       \* the results map, guarded by mu
    wCtx,           \* the context: cancelled, and the fetches in flight then
    wReport,        \* the ValidationResult returned
    \* --- the Fetcher of a run and the calls of Fetch made on it ---
    fAuth,          \* f.auth.Type
    fToken,         \* f.token, the cached OAuth token
    fCalls,         \* per call of Fetch: its pc, locals, response and outcome
    fExchanges      \* the answers of the token endpoint, in order

policyVars == <<pVersion, pOpts, pReqs, pName, pGbfs>>

coerceVars == <<cPhase, cType, cOpts, cIn, cStrict, cFirst, cLenient, cSecond>>

validateVars ==
    <<vPc, vOpts, vUrlIsGbfsJson, vManifestReqs, vGbfs, vResp, vFileResults,
      vResults, vReport>>

workerVars == <<wPhase, wIn, wWorkers, wUnlisted, wLog, wResults, wCtx, wReport>>

runVars == <<validateVars, workerVars>>

fetchVars == <<fAuth, fToken, fCalls, fExchanges>>

vars == <<policyVars, coerceVars, runVars, fetchVars>>

Unset == "unset"

(***************************************************************************)
(* pkg/version: the static table of the eight supported versions.          *)
(***************************************************************************)

\* SupportedVersions lists supported GBFS versions.
SupportedVersions == <<"1.0", "1.1", "2.0", "2.1", "2.2", "2.3", "3.0", "3.1-RC2">>

SupportedSet == {SupportedVersions[i] : i \in DOMAIN SupportedVersions}

\* Version strings that are no key of the table.
UnknownVersions == {"", "2.4", "3.1", "9.9"}

\* A FileRequirement.
Req(file, required) == [File |-> file, Required |-> required]

FilesV10(o) ==
    << Req("system_information", TRUE),
       Req("station_information", o.Docked),
       Req("station_status", o.Docked),
       Req("free_bike_status", o.Freefloating),
       Req("system_hours", FALSE),
       Req("system_calendar", FALSE),
       Req("system_regions", FALSE),
       Req("system_pricing_plans", FALSE),
       Req("system_alerts", FALSE) >>

FilesV11(o) == <<Req("gbfs_versions", FALSE)>> \o FilesV10(o)

FilesV21(o) ==
    << Req("gbfs_versions", FALSE),
       Req("system_information", TRUE),
       Req("vehicle_types", FALSE),
       Req("station_information", o.Docked),
       Req("station_status", o.Docked),
       Req("free_bike_status", o.Freefloating),
       Req("system_hours", FALSE),
       Req("system_calendar", FALSE),
       Req("system_regions", FALSE),
       Req("system_pricing_plans", FALSE),
       Req("system_alerts", FALSE),
       Req("geofencing_zones", FALSE) >>

\* The 3.0 table with the vehicle_status row keyed on the wrong flag.
FilesV30DockedVehicles(o) ==
    << Req("manifest", FALSE),
       Req("gbfs_versions", FALSE),
       Req("system_information", TRUE),
       Req("vehicle_types", FALSE),
       Req("station_information", o.Docked),
       Req("station_status", o.Docked),
       Req("vehicle_status", o.Docked),
       Req("system_regions", FALSE),
       Req("system_pricing_plans", FALSE),
       Req("system_alerts", FALSE),
       Req("geofencing_zones", FALSE) >>

FilesV30(o) ==
    << Req("manifest", FALSE),
       Req("gbfs_versions", FALSE),
       Req("system_information", TRUE),
       Req("vehicle_types", FALSE),
       Req("station_information", o.Docked),
       Req("station_status", o.Docked),
       Req("vehicle_status", o.Freefloating),
       Req("system_regions", FALSE),
       Req("system_pricing_plans", FALSE),
       Req("system_alerts", FALSE),
       Req("geofencing_zones", FALSE) >>

FilesV31RC2(o) ==
    << Req("manifest", FALSE),
       Req("gbfs_versions", FALSE),
       Req("system_information", TRUE),
       Req("vehicle_types", FALSE),
       Req("station_information", o.Docked),
       Req("station_status", o.Docked),
       Req("vehicle_status", o.Freefloating),
       Req("vehicle_availability", FALSE),
       Req("system_regions", FALSE),
       Req("system_pricing_plans", FALSE),
       Req("system_alerts", FALSE),
       Req("geofencing_zones", FALSE) >>

\* Configs[v].Files(opts), for a key v of the table.
ConfigFiles(v, o) ==
    CASE v = "1.0" -> FilesV10(o)
      [] v = "1.1" -> FilesV11(o)
      [] v = "2.0" -> FilesV11(o)
      [] v = "2.1" -> FilesV21(o)
      [] v = "2.2" -> FilesV21(o)
      [] v = "2.3" -> FilesV21(o)
      [] v = "3.0" -> FilesV30(o)
      [] v = "3.1-RC2" -> FilesV31RC2(o)

\* Configs[v].GBFSRequired, for a key v of the table.
ConfigGBFSRequired(v) == v \notin {"1.0", "1.1"}

\* GetFileRequirements returns file requirements for a version.
GetFileRequirements(version, o) ==
    IF version \in SupportedSet THEN ConfigFiles(version, o)
    ELSE ConfigFiles("3.0", o)

\* IsGBFSRequired reports whether gbfs.json is required.
IsGBFSRequired(version) ==
    IF version \in SupportedSet THEN ConfigGBFSRequired(version) ELSE TRUE

\* IsV3OrLater reports whether a version uses v3+ file layouts.
IsV3OrLater(version) == version \in {"3.0", "3.1-RC2", "3.1"}

\* GetVehicleStatusFileName returns the vehicle status filename for a version.
GetVehicleStatusFileName(version) ==
    IF IsV3OrLater(version) THEN "vehicle_status" ELSE "free_bike_status"

FlagSets == [Docked : BOOLEAN, Freefloating : BOOLEAN]

\* The file names of a requirement list.
ReqNames(reqs) == {reqs[i].File : i \in DOMAIN reqs}

(***************************************************************************)
(* JSON values as encoding/json decodes them into interface{}: a JSON      *)
(* number becomes a float64, and the coercer stores int64 values that      *)
(* json.Marshal prints as number literals. A value is [t, v]: its Go type  *)
(* and its text. Numbers are carried as decimal text, so that a literal    *)
(* beyond 2^53 and the float64 nearest to it stay distinct.                *)
(***************************************************************************)
VBool(b)   == [t |-> "bool", v |-> IF b THEN "true" ELSE "false"]
VFloat(s)  == [t |-> "float64", v |-> s]
VInt(s)    == [t |-> "int64", v |-> s]
VStr(s)    == [t |-> "string", v |-> s]
VNum(s)    == [t |-> "number", v |-> s]     \* a number literal in JSON text
VNull      == [t |-> "nil", v |-> "null"]

\* An integer literal that float64 cannot hold (2^53 + 1) and the float64
\* nearest to it (2^53, ties to even).
BigIntText   == "9007199254740993"
BigFloatText == "9007199254740992"

\* strings.TrimSpace, on the strings of the catalogue.
TrimSpace(s) ==
    CASE s = " TRUE " -> "TRUE"
      [] s = " 1 " -> "1"
      [] OTHER -> s

\* strings.ToLower, on the strings of the catalogue.
ToLower(s) == IF s = "TRUE" THEN "true" ELSE s

\* The decimal integer literals of the catalogue (strconv.ParseInt succeeds).
IntTexts == {"0", "1", "5", "1700000000", BigIntText}

\* The non-integer decimal literals of the catalogue.
FracTexts == {"1.5", "40.5"}

\* strconv.ParseInt(s, 10, 64) succeeds.
ParsesInt(s) == s \in IntTexts

\* strconv.ParseFloat(s, 64) succeeds.
ParsesFloat(s) == s \in IntTexts \cup FracTexts

\* The float64 a number literal denotes, as the text json.Marshal prints.
Float64Text(s) == IF s = BigIntText THEN BigFloatText ELSE s

\* int64(f) for a float64 f: truncation toward zero.
TruncText(s) ==
    CASE s = "1.5" -> "1"
      [] s = "40.5" -> "40"
      [] OTHER -> s

\* f == float64(int64(f))
IsIntegral(s) == s \notin FracTexts

\* time.Parse(time.RFC3339, s) succeeds.
IsRFC3339(s) == s = "2024-01-02T03:04:05Z"

\* The alternate layouts of coerceTimestamp that accept s (the first one is
\* RFC3339 itself): "2006-01-02 15:04:05" and "2006-01-02".
ParsesAltLayout(s) == s \in {"2024-01-02 03:04:05", "2024-01-02"}

\* t.Unix() of the time an alternate layout parses.
AltLayoutUnix(s) == IF s = "2024-01-02" THEN "1704153600" ELSE "1704164645"

(***************************************************************************)
(* A document: the top-level object of a feed file.                        *)
(*   valid : the bytes are a JSON object                                   *)
(*   top   : the top-level scalar members (last_updated, ttl, version)     *)
(*   data  : "object", "null" or "absent": the member "data"               *)
(*   obj   : the scalar members of the data object                         *)
(*   key   : the member of data that holds the collection, "" if none      *)
(*   items : the objects of that collection                                *)
(* An object is a function from member names to values.                    *)
(***************************************************************************)
EmptyObj == [k \in {} |-> VNull]

Doc(top, data, obj, key, items) ==
    [valid |-> TRUE, top |-> top, data |-> data, obj |-> obj,
     key |-> key, items |-> items]

\* Bytes that are not a JSON object.
BadJSON ==
    [valid |-> FALSE, top |-> EmptyObj, data |-> "absent", obj |-> EmptyObj,
     key |-> "", items |-> <<>>]

Has(o, k) == k \in DOMAIN o

\* The function f as an explicit table of its values: the same function,
\* whose values are computed once rather than each time it is applied.
Table(f) == f @@ <<>>

Put(o, k, val) == [x \in DOMAIN o \cup {k} |-> IF x = k THEN val ELSE o[x]]

\* for k, v := range o { if v == nil { delete(o, k) } }
DropNulls(o) == [x \in {k \in DOMAIN o : o[k].t # "nil"} |-> o[x]]

MapObj(o, Op(_)) == [x \in DOMAIN o |-> Op(o[x])]

MapDoc(d, Op(_)) ==
    [d EXCEPT !.top = MapObj(d.top, Op),
              !.obj = MapObj(d.obj, Op),
              !.items = [i \in DOMAIN d.items |-> MapObj(d.items[i], Op)]]

\* json.Unmarshal into interface{}: every number literal becomes a float64.
DecodeValue(x) == IF x.t = "number" THEN VFloat(Float64Text(x.v)) ELSE x

\* json.Marshal of an interface{} value: int64 and float64 print as literals.
EncodeValue(x) == IF x.t \in {"int64", "float64"} THEN VNum(x.v) ELSE x

\* json.Unmarshal(data, &jsonData) for a document that parses.
Unmarshal(bytes) == MapDoc(bytes, DecodeValue)

\* json.Marshal(jsonData)
Marshal(d) == MapDoc(d, EncodeValue)

(***************************************************************************)
(* pkg/coerce: the lenient coercion pipeline.                              *)
(***************************************************************************)

\* coerce.Options: the five toggles the validator passes on.
CoerceOptionSets ==
    [CoerceBooleans : BOOLEAN, CoerceTimestamps : BOOLEAN,
     CoerceNumericStrings : BOOLEAN, CoerceCoordinates : BOOLEAN,
     TreatNullAsAbsent : BOOLEAN]

\* DefaultLenientOptions returns permissive coercion defaults.
DefaultLenientOptions ==
    [CoerceBooleans |-> TRUE, CoerceTimestamps |-> TRUE,
     CoerceNumericStrings |-> TRUE, CoerceCoordinates |-> TRUE,
     TreatNullAsAbsent |-> TRUE]

\* The (value, changed) pair a coercion returns.
Ret(val, changed) == [val |-> val, changed |-> changed]

\* coerceToBool converts a value to bool when possible.
coerceToBool(val) ==
    CASE val.t = "bool" -> Ret(val, FALSE)
      [] val.t \in {"float64", "int64"} -> Ret(VBool(val.v # "0"), TRUE)
      [] val.t = "string" ->
            LET lower == ToLower(TrimSpace(val.v))
            IN  IF lower \in {"true", "1", "yes", "on"} THEN Ret(VBool(TRUE), TRUE)
                ELSE IF lower \in {"false", "0", "no", "off", ""} THEN Ret(VBool(FALSE), TRUE)
                ELSE Ret(VBool(FALSE), FALSE)
      [] OTHER -> Ret(VBool(FALSE), FALSE)

\* coerceToInt converts a value to int64 when possible.
coerceToInt(val) ==
    CASE val.t = "float64" -> Ret(VInt(TruncText(val.v)), FALSE)
      [] val.t = "int64" -> Ret(val, FALSE)
      [] val.t = "string" ->
            LET s == TrimSpace(val.v)
            IN  IF ParsesInt(s) THEN Ret(VInt(s), TRUE)
                ELSE IF ParsesFloat(s) THEN Ret(VInt(TruncText(s)), TRUE)
                ELSE Ret(VInt("0"), FALSE)
      [] OTHER -> Ret(VInt("0"), FALSE)

\* coerceToFloat converts a value to float64 when possible.
coerceToFloat(val) ==
    CASE val.t = "float64" -> Ret(val, FALSE)
      [] val.t = "int64" -> Ret(VFloat(Float64Text(val.v)), TRUE)
      [] val.t = "string" ->
            LET s == TrimSpace(val.v)
            IN  IF ParsesFloat(s) THEN Ret(VFloat(Float64Text(s)), TRUE)
                ELSE Ret(VFloat("0"), FALSE)
      [] OTHER -> Ret(VFloat("0"), FALSE)

\* coerceToNumber converts a value to int64 or float64 when possible.
coerceToNumber(val) ==
    CASE val.t \in {"float64", "int64"} -> Ret(val, FALSE)
      [] val.t = "string" ->
            LET s == TrimSpace(val.v)
            IN  IF ParsesInt(s) THEN Ret(VInt(s), TRUE)
                ELSE IF ParsesFloat(s) THEN Ret(VFloat(s), TRUE)
                ELSE Ret(val, FALSE)
      [] OTHER -> Ret(val, FALSE)

\* coerceTimestamp normalizes POSIX and RFC3339 timestamps.
coerceTimestamp(val) ==
    CASE val.t = "float64" -> Ret(VInt(TruncText(val.v)), ~IsIntegral(val.v))
      [] val.t = "int64" -> Ret(val, FALSE)
      [] val.t = "string" ->
            LET s == TrimSpace(val.v)
            IN  IF ParsesInt(s) THEN Ret(VInt(s), TRUE)
                ELSE IF IsRFC3339(s) THEN Ret(VStr(s), FALSE)
                ELSE IF ParsesAltLayout(s) THEN Ret(VInt(AltLayoutUnix(s)), TRUE)
                ELSE Ret(val, FALSE)
      [] OTHER -> Ret(val, FALSE)

\* One step of a field map: the member, the coercion and the toggle that
\* enables it.
Rule(field, fn, toggle) == [field |-> field, fn |-> fn, toggle |-> toggle]

RulesFor(fields, fn, toggle) == [i \in DOMAIN fields |-> Rule(fields[i], fn, toggle)]

ApplyFn(fn, val) ==
    CASE fn = "bool" -> coerceToBool(val)
      [] fn = "int" -> coerceToInt(val)
      [] fn = "float" -> coerceToFloat(val)
      [] fn = "number" -> coerceToNumber(val)
      [] fn = "timestamp" -> coerceTimestamp(val)

\* logCoercion appends a coercion record.
logCoercion(path, field, from, to) ==
    [Path |-> path, Field |-> field, FromType |-> from.t, ToType |-> to.t,
     From |-> from, To |-> to]

\* The steps of a field map applied to one object, in the order of the code:
\*   if c.opts.X { if val, ok := o[f]; ok { if coerced, changed := fn(val);
\*   changed { c.logCoercion(path, f, val, coerced); o[f] = coerced } } }
RECURSIVE ApplyRules(_, _, _, _, _, _)
ApplyRules(o, log, rules, k, opts, path) ==
    IF k > Len(rules) THEN [obj |-> o, log |-> log]
    ELSE LET r == rules[k]
             on == opts[r.toggle] /\ Has(o, r.field)
             c == ApplyFn(r.fn, o[r.field])
         IN  IF on /\ c.changed
             THEN ApplyRules(Put(o, r.field, c.val),
                             Append(log, logCoercion(path, r.field, o[r.field], c.val)),
                             rules, k + 1, opts, path)
             ELSE ApplyRules(o, log, rules, k + 1, opts, path)

RECURSIVE ConcatLogs(_, _)
ConcatLogs(rs, k) ==
    IF k > Len(rs) THEN <<>> ELSE rs[k].log \o ConcatLogs(rs, k + 1)

\* for i, s := range items: the field map applied to every object of the
\* collection, with path prefix/<i>; nulls are dropped when dropNulls.
CoerceItems(items, rules, opts, prefix, dropNulls) ==
    LET rs == [i \in DOMAIN items |->
                 ApplyRules(items[i], <<>>, rules, 1, opts, prefix \o ToString(i - 1))]
    IN  [items |-> [i \in DOMAIN items |->
                      IF dropNulls THEN DropNulls(rs[i].obj) ELSE rs[i].obj],
         log |-> ConcatLogs(rs, 1)]

\* coerceCommonFields normalizes shared fields.
coerceCommonFields(d, opts) ==
    LET r == ApplyRules(d.top, <<>>,
                        << Rule("last_updated", "timestamp", "CoerceTimestamps"),
                           Rule("ttl", "int", "CoerceNumericStrings") >>,
                        1, opts, "")
    IN  [doc |-> IF opts.TreatNullAsAbsent
                 THEN [d EXCEPT !.top = DropNulls(r.obj),
                                !.data = IF d.data = "null" THEN "absent" ELSE d.data]
                 ELSE [d EXCEPT !.top = r.obj],
         log |-> r.log]

StationStatusRules ==
    RulesFor(<<"is_installed", "is_renting", "is_returning", "is_charging_station">>,
             "bool", "CoerceBooleans")
    \o RulesFor(<<"num_bikes_available", "num_bikes_disabled",
                  "num_docks_available", "num_docks_disabled",
                  "num_vehicles_available", "num_vehicles_disabled",
                  "last_reported">>, "int", "CoerceNumericStrings")
    \o <<Rule("last_reported", "timestamp", "CoerceTimestamps")>>

StationInformationRules ==
    RulesFor(<<"lat", "lon">>, "float", "CoerceCoordinates")
    \o <<Rule("capacity", "int", "CoerceNumericStrings")>>
    \o RulesFor(<<"is_valet_station", "is_virtual_station", "is_charging_station">>,
                "bool", "CoerceBooleans")

VehicleStatusRules ==
    RulesFor(<<"lat", "lon">>, "float", "CoerceCoordinates")
    \o RulesFor(<<"is_reserved", "is_disabled">>, "bool", "CoerceBooleans")
    \o RulesFor(<<"current_range_meters", "current_fuel_percent", "last_reported">>,
                "int", "CoerceNumericStrings")
    \o <<Rule("last_reported", "timestamp", "CoerceTimestamps")>>

VehicleTypesRules ==
    RulesFor(<<"max_range_meters", "wheel_count", "max_permitted_speed",
               "rated_power", "default_reserve_time", "cargo_volume_capacity",
               "cargo_load_capacity">>, "number", "CoerceNumericStrings")

SystemInformationRules ==
    RulesFor(<<"start_date", "end_date">>, "timestamp", "CoerceTimestamps")

GeofencingRuleRules ==
    <<Rule("ride_through_allowed", "bool", "CoerceBooleans")>>
    \o RulesFor(<<"maximum_speed_kph", "station_parking">>, "number", "CoerceNumericStrings")

\* The collection of a document, when data is an object that holds it.
HasItems(d, keys) == d.data = "object" /\ d.key \in keys

WithItems(d, r) == [doc |-> [d EXCEPT !.items = r.items], log |-> r.log]

Untouched(d) == [doc |-> d, log |-> <<>>]

\* coerceStationStatus normalizes station_status.json.
coerceStationStatus(d, opts) ==
    IF ~HasItems(d, {"stations"}) THEN Untouched(d)
    ELSE WithItems(d, CoerceItems(d.items, StationStatusRules, opts,
                                  "/data/stations/", opts.TreatNullAsAbsent))

\* coerceStationInformation normalizes station_information.json.
coerceStationInformation(d, opts) ==
    IF ~HasItems(d, {"stations"}) THEN Untouched(d)
    ELSE WithItems(d, CoerceItems(d.items, StationInformationRules, opts,
                                  "/data/stations/", FALSE))

\* coerceVehicleStatus normalizes vehicle_status.json or free_bike_status.json.
coerceVehicleStatus(d, opts) ==
    IF ~HasItems(d, {"vehicles", "bikes"}) THEN Untouched(d)
    ELSE WithItems(d, CoerceItems(d.items, VehicleStatusRules, opts,
                                  "/data/" \o d.key \o "/", FALSE))

\* coerceVehicleTypes normalizes vehicle_types.json.
coerceVehicleTypes(d, opts) ==
    IF ~HasItems(d, {"vehicle_types"}) THEN Untouched(d)
    ELSE WithItems(d, CoerceItems(d.items, VehicleTypesRules, opts,
                                  "/data/vehicle_types/", FALSE))

\* coerceSystemInformation normalizes system_information.json.
coerceSystemInformation(d, opts) ==
    IF d.data # "object" THEN Untouched(d)
    ELSE LET r == ApplyRules(d.obj, <<>>, SystemInformationRules, 1, opts, "/data")
         IN  [doc |-> [d EXCEPT !.obj = r.obj], log |-> r.log]

\* coerceGeofencingZones normalizes geofencing_zones.json: the collection is
\* the rules of the zone at index 0.
coerceGeofencingZones(d, opts) ==
    IF ~HasItems(d, {"geofencing_zones"}) THEN Untouched(d)
    ELSE WithItems(d, CoerceItems(d.items, GeofencingRuleRules, opts,
                        "/data/geofencing_zones/features/0/properties/rules/", FALSE))

\* The switch on feedType in Coerce.
coerceByType(d, feedType, opts) ==
    CASE feedType = "station_status" -> coerceStationStatus(d, opts)
      [] feedType = "station_information" -> coerceStationInformation(d, opts)
      [] feedType \in {"vehicle_status", "free_bike_status"} -> coerceVehicleStatus(d, opts)
      [] feedType = "vehicle_types" -> coerceVehicleTypes(d, opts)
      [] feedType = "system_information" -> coerceSystemInformation(d, opts)
      [] feedType = "geofencing_zones" -> coerceGeofencingZones(d, opts)
      [] OTHER -> Untouched(d)

\* Coerce normalizes JSON data for a feed type: the coerced bytes and the
\* log of this call, or err when the bytes do not parse.
Coerce(data, feedType, opts) ==
    IF ~data.valid THEN [err |-> TRUE, Data |-> data, Log |-> <<>>]
    ELSE LET c == coerceCommonFields(Unmarshal(data), opts)
             t == coerceByType(c.doc, feedType, opts)
         IN  [err |-> FALSE, Data |-> Marshal(t.doc), Log |-> c.log \o t.log]

(***************************************************************************)
(* pkg/validator: structural validation.                                   *)
(***************************************************************************)
SeverityError   == "error"
SeverityWarning == "warning"

\* A ValidationError.
Issue(severity, message, path) ==
    [Severity |-> severity, Message |-> message, InstancePath |-> path]

IssueIf(cond, issue) == IF cond THEN <<issue>> ELSE <<>>

RECURSIVE ConcatAll(_, _)
ConcatAll(seqs, k) ==
    IF k > Len(seqs) THEN <<>> ELSE seqs[k] \o ConcatAll(seqs, k + 1)

\* for i, s := range items { ... }: the issues of every object, in order.
ForItems(items, PerItem(_, _)) ==
    ConcatAll([i \in DOMAIN items |-> PerItem(i - 1, items[i])], 1)

Idx(prefix, i, suffix) == prefix \o ToString(i) \o suffix

\* isMotorized reports whether a propulsion type is motorized.
isMotorized(propulsionType) ==
    propulsionType \in {"electric", "electric_assist", "combustion",
                        "combustion_diesel", "hybrid", "plug_in_hybrid",
                        "hydrogen_fuel_cell"}

\* validateSystemInformation checks system_information.json structure.
validateSystemInformation(d) ==
    IF d.data # "object" THEN <<>>
    ELSE IssueIf(~Has(d.obj, "system_id"),
                 Issue(SeverityError, "system_id is required", "/data/system_id"))
         \o IssueIf(~Has(d.obj, "timezone"),
                 Issue(SeverityError, "timezone is required", "/data/timezone"))
         \o IssueIf(~Has(d.obj, "name"),
                 Issue(SeverityError, "name is required", "/data/name"))

StationInformationItem(i, s) ==
    IssueIf(~Has(s, "station_id"),
            Issue(SeverityError, "station_id is required", Idx("/data/stations/", i, "/station_id")))
    \o IssueIf(~Has(s, "lat"),
            Issue(SeverityError, "lat is required", Idx("/data/stations/", i, "/lat")))
    \o IssueIf(~Has(s, "lon"),
            Issue(SeverityError, "lon is required", Idx("/data/stations/", i, "/lon")))

\* validateStationInformation checks station_information.json structure.
validateStationInformation(d) ==
    IF d.data # "object" THEN <<>>
    ELSE IF d.key # "stations"
    THEN <<Issue(SeverityError, "stations array is required", "/data/stations")>>
    ELSE ForItems(d.items, StationInformationItem)

StationStatusBool(i, s, field) ==
    IssueIf(Has(s, field) /\ s[field].t # "bool",
            Issue(SeverityError, field \o " must be a boolean",
                  Idx("/data/stations/", i, "/" \o field)))

StationStatusItem(i, s) ==
    IssueIf(~Has(s, "station_id"),
            Issue(SeverityError, "station_id is required", Idx("/data/stations/", i, "/station_id")))
    \o StationStatusBool(i, s, "is_installed")
    \o StationStatusBool(i, s, "is_renting")
    \o StationStatusBool(i, s, "is_returning")

\* validateStationStatus checks station_status.json structure.
validateStationStatus(d) ==
    IF d.data # "object" THEN <<>>
    ELSE IF d.key # "stations"
    THEN <<Issue(SeverityError, "stations array is required", "/data/stations")>>
    ELSE ForItems(d.items, StationStatusItem)

VehicleStatusItem(i, v) ==
    IssueIf(~(Has(v, "vehicle_id") \/ Has(v, "bike_id")),
            Issue(SeverityError, "vehicle_id or bike_id is required", Idx("/data/vehicles/", i, "")))

\* validateVehicleStatus checks vehicle status feed structure.
validateVehicleStatus(d) ==
    IF d.data # "object" THEN <<>>
    ELSE IF d.key \notin {"vehicles", "bikes"}
    THEN <<Issue(SeverityError, "vehicles or bikes array is required", "/data/vehicles")>>
    ELSE ForItems(d.items, VehicleStatusItem)

VehicleTypesItem(i, vt) ==
    IssueIf(~Has(vt, "vehicle_type_id"),
            Issue(SeverityError, "vehicle_type_id is required",
                  Idx("/data/vehicle_types/", i, "/vehicle_type_id")))
    \o IssueIf(~Has(vt, "form_factor"),
            Issue(SeverityError, "form_factor is required",
                  Idx("/data/vehicle_types/", i, "/form_factor")))
    \o IssueIf(~Has(vt, "propulsion_type"),
            Issue(SeverityError, "propulsion_type is required",
                  Idx("/data/vehicle_types/", i, "/propulsion_type")))
    \o IssueIf(/\ Has(vt, "propulsion_type")
               /\ vt["propulsion_type"].t = "string"
               /\ isMotorized(vt["propulsion_type"].v)
               /\ ~Has(vt, "max_range_meters"),
            Issue(SeverityWarning, "max_range_meters is required for motorized vehicles",
                  Idx("/data/vehicle_types/", i, "/max_range_meters")))

\* validateVehicleTypes checks vehicle_types.json structure.
validateVehicleTypes(d) ==
    IF d.data # "object" THEN <<>>
    ELSE IF d.key # "vehicle_types"
    THEN <<Issue(SeverityError, "vehicle_types array is required", "/data/vehicle_types")>>
    ELSE ForItems(d.items, VehicleTypesItem)

\* The switch on feedType in validateFileStructure.
validateByType(d, feedType) ==
    CASE feedType = "system_information" -> validateSystemInformation(d)
      [] feedType = "station_information" -> validateStationInformation(d)
      [] feedType = "station_status" -> validateStationStatus(d)
      [] feedType \in {"vehicle_status", "free_bike_status"} -> validateVehicleStatus(d)
      [] feedType = "vehicle_types" -> validateVehicleTypes(d)
      [] OTHER -> <<>>

\* validateFileStructure checks a feed file's basic structure.
validateFileStructure(data, feedType) ==
    IF ~data.valid THEN <<Issue(SeverityError, "Invalid JSON", "")>>
    ELSE LET d == Unmarshal(data)
         IN  IssueIf(~Has(d.top, "last_updated"),
                     Issue(SeverityError, "last_updated is required", "/last_updated"))
             \o IssueIf(~Has(d.top, "ttl"),
                     Issue(SeverityWarning, "ttl is recommended", "/ttl"))
             \o IssueIf(d.data = "absent",
                     Issue(SeverityError, "data object is required", "/data"))
             \o validateByType(d, feedType)

(***************************************************************************)
(* pkg/fetcher: the outcome of one Fetch.                                  *)
(***************************************************************************)
\* RawData == nil: no bytes.
NilData ==
    [valid |-> FALSE, top |-> EmptyObj, data |-> "absent", obj |-> EmptyObj,
     key |-> "<nil>", items |-> <<>>]

\* What the server and the network do with one request: a response with a
\* status and a body, a response whose body cannot be read, or no response.
Response(kind, status, body) == [kind |-> kind, status |-> status, body |-> body]

Found(body)    == Response("response", 200, body)
NotFound       == Response("response", 404, NilData)
ServerError    == Response("response", 500, NilData)
NoContent      == Response("response", 204, NilData)
TransportError == Response("transport_error", 0, NilData)
ReadError      == Response("read_error", 200, NilData)

\* A FetchResult.
FetchResult(exists, error, status, body) ==
    [Exists |-> exists, Error |-> error, StatusCode |-> status, Body |-> body]

\* Fetch retrieves a URL and returns the raw response body. client.Do fails
\* when the context is cancelled or the transport fails.
Fetch(resp, cancelled) ==
    IF cancelled \/ resp.kind = "transport_error"
    THEN FetchResult(FALSE, "failed to fetch URL", 0, NilData)
    ELSE IF resp.status = 404
    THEN FetchResult(FALSE, "", 404, NilData)
    ELSE IF resp.status # 200
    THEN FetchResult(FALSE, "unexpected status code", resp.status, NilData)
    ELSE IF resp.kind = "read_error"
    THEN FetchResult(FALSE, "failed to read response body", 200, NilData)
    ELSE FetchResult(TRUE, "", 200, resp.body)

\* fetchResult.Error != nil || !fetchResult.Exists
FetchMissed(fr) == fr.Error # "" \/ ~fr.Exists

(***************************************************************************)
(* pkg/gbfs: json.Unmarshal of the bytes of a document into the typed      *)
(* structs. A member of a type the struct field cannot hold makes          *)
(* Unmarshal return an error; null leaves the field at its zero value;     *)
(* members the struct does not declare are ignored.                        *)
(***************************************************************************)
\* Timestamp.UnmarshalJSON accepts RFC3339 strings or POSIX ints.
TimestampOK(x) ==
    \/ x.t = "nil"
    \/ x.t = "string" /\ IsRFC3339(x.v)
    \/ x.t = "number" /\ IsIntegral(x.v)

\* The JSON value x decodes into a struct field of the given Go type.
FieldOK(kind, x) ==
    CASE kind = "any" -> TRUE
      [] x.t = "nil" -> TRUE
      [] kind = "string" -> x.t = "string"
      [] kind = "bool" -> x.t = "bool"
      [] kind = "float64" -> x.t = "number"
      [] kind = "int" -> x.t = "number" /\ IsIntegral(x.v)
      [] kind = "Timestamp" -> TimestampOK(x)

\* CommonHeader
CommonHeaderKind(k) ==
    CASE k = "last_updated" -> "Timestamp"
      [] k = "ttl" -> "int"
      [] k = "version" -> "string"
      [] OTHER -> "any"

\* Station
StationKind(k) ==
    CASE k \in {"station_id", "address", "region_id"} -> "string"
      [] k \in {"lat", "lon"} -> "float64"
      [] k = "capacity" -> "int"
      [] k \in {"is_virtual_station", "is_valet_station", "is_charging_station"} -> "bool"
      [] OTHER -> "any"

\* StationStatusEntry
StationStatusEntryKind(k) ==
    CASE k = "station_id" -> "string"
      [] k \in {"num_bikes_available", "num_vehicles_available", "num_bikes_disabled",
                "num_vehicles_disabled", "num_docks_available", "num_docks_disabled"} -> "int"
      [] k \in {"is_installed", "is_renting", "is_returning"} -> "bool"
      [] k = "last_reported" -> "Timestamp"
      [] OTHER -> "any"

\* VehicleType
VehicleTypeKind(k) ==
    CASE k \in {"vehicle_type_id", "form_factor", "propulsion_type",
                "default_pricing_plan_id"} -> "string"
      [] k = "max_range_meters" -> "float64"
      [] k \in {"wheel_count", "max_permitted_speed", "rated_power", "default_reserve_time",
                "cargo_volume_capacity", "cargo_load_capacity", "rider_capacity"} -> "int"
      [] OTHER -> "any"

\* Vehicle
VehicleKind(k) ==
    CASE k \in {"vehicle_id", "bike_id", "vehicle_type_id", "station_id",
                "home_station_id", "pricing_plan_id"} -> "string"
      [] k \in {"lat", "lon", "current_range_meters", "current_fuel_percent"} -> "float64"
      [] k \in {"is_reserved", "is_disabled"} -> "bool"
      [] k = "last_reported" -> "Timestamp"
      [] OTHER -> "any"

\* PricingPlan
PricingPlanKind(k) ==
    CASE k \in {"plan_id", "url", "currency"} -> "string"
      [] k = "price" -> "float64"
      [] k \in {"is_taxable", "surge_pricing"} -> "bool"
      [] OTHER -> "any"

ObjectOK(o, Kind(_)) == \A k \in DOMAIN o : FieldOK(Kind(k), o[k])

\* The objects of the collection the struct declares under one of keys.
TypedItems(d, keys) ==
    IF d.valid /\ d.data = "object" /\ d.key \in keys THEN d.items ELSE <<>>

\* json.Unmarshal(RawData, &typed) returns no error.
UnmarshalOK(d, keys, Kind(_)) ==
    /\ d.valid
    /\ ObjectOK(d.top, CommonHeaderKind)
    /\ \A i \in DOMAIN TypedItems(d, keys) : ObjectOK(TypedItems(d, keys)[i], Kind)

\* A string field of a decoded struct: "" when absent or null.
StringOf(o, k) == IF Has(o, k) /\ o[k].t = "string" THEN o[k].v ELSE ""

\* A float64 field of a decoded struct is 0: absent, null or zero.
IsZeroNumber(o, k) == ~Has(o, k) \/ o[k].t = "nil" \/ o[k].v = "0"

\* VehicleStatusData.GetVehicles returns vehicles for any version.
GetVehicles(d) == TypedItems(d, {"vehicles", "bikes"})

(***************************************************************************)
(* pkg/validator: the manifest, the document workers and the report.       *)
(***************************************************************************)
\* Options of the Validator; the Coercer New builds from them.
ValidatorOptions(docked, freefloating, ver, lenient) ==
    [Docked |-> docked, Freefloating |-> freefloating, Version |-> ver,
     LenientMode |-> lenient]

\* A FileValidationResult.
FileResult(file, url, required) ==
    [File |-> file, URL |-> url, Required |-> required, Exists |-> FALSE,
     HasErrors |-> FALSE, ErrorsCount |-> 0, Errors |-> <<>>,
     RawData |-> NilData, CoercionCount |-> 0]

\* result.HasErrors = true; result.ErrorsCount = 1; result.Errors = {one issue}
OneError(r, message) ==
    [r EXCEPT !.HasErrors = TRUE, !.ErrorsCount = 1,
              !.Errors = <<Issue(SeverityError, message, "")>>]

\* if len(schemaErrors) > 0 { HasErrors = true; Errors = ...; ErrorsCount = len }
WithSchemaErrors(r, schemaErrors) ==
    IF Len(schemaErrors) > 0
    THEN [r EXCEPT !.HasErrors = TRUE, !.Errors = schemaErrors,
                   !.ErrorsCount = Len(schemaErrors)]
    ELSE r

\* A FeedInfo of the manifest.
FeedInfo(name, url) == [Name |-> name, URL |-> url]

\* The bytes of gbfs.json: whether they decode into GBFSFeed, the header,
\* and the feed lists of data: one list under "feeds" (layout "flat") or one
\* list per language (layout "languages").
ManifestBody(parses, ttl, ver, layout, lists) ==
    [parses |-> parses, TTL |-> ttl, Version |-> ver, Layout |-> layout,
     Lists |-> lists]

\* GBFSData.UnmarshalJSON: the feed lists d.Feeds may end up holding. A
\* non-empty flat list is taken; of a language map, the list of the language
\* that the iteration of the map visits first.
GBFSDataFeeds(m) ==
    IF m.Layout = "flat"
    THEN {IF Len(m.Lists) > 0 THEN m.Lists[1] ELSE <<>>}
    ELSE IF Len(m.Lists) = 0 THEN {<<>>}
    ELSE {m.Lists[i] : i \in DOMAIN m.Lists}

NoFeed == [TTL |-> 0, Version |-> "<nil>", Feeds |-> <<>>]

GBFSFeedIssues(i, f) ==
    IssueIf(f.Name = "",
            Issue(SeverityError, "feed name is required", Idx("/data/feeds/", i, "/name")))
    \o IssueIf(f.URL = "",
            Issue(SeverityError, "feed url is required", Idx("/data/feeds/", i, "/url")))

\* validateGBFSStructure checks gbfs.json structure.
validateGBFSStructure(feed) ==
    IssueIf(feed.TTL < 0, Issue(SeverityError, "ttl must be non-negative", "/ttl"))
    \o IssueIf(Len(feed.Feeds) = 0,
               Issue(SeverityError, "data.feeds array is required and must not be empty",
                     "/data/feeds"))
    \o ForItems(feed.Feeds, GBFSFeedIssues)

\* The fallback request of validateGBFS is made.
GBFSRetried(first, urlIsGbfsJson) == first.Error # "" /\ ~urlIsGbfsJson

\* validateGBFS fetches and validates gbfs.json: first and second are the
\* outcomes of the request to the given URL and to BuildFeedURL(url, "gbfs"),
\* feeds the list GBFSData.UnmarshalJSON kept.
validateGBFS(first, second, urlIsGbfsJson, optVersion, feeds) ==
    LET retried == GBFSRetried(first, urlIsGbfsJson)
        fetchResult == IF retried THEN second ELSE first
        result == [FileResult("gbfs.json",
                              IF retried /\ second.Error = "" THEN "alt" ELSE "given",
                              TRUE)
                   EXCEPT !.Exists = ~FetchMissed(fetchResult),
                          !.RawData = fetchResult.Body]
    IN  IF FetchMissed(fetchResult)
        THEN [result |-> IF IsGBFSRequired(optVersion)
                         THEN OneError(result, "gbfs.json is required but not found")
                         ELSE result,
              feed |-> NoFeed, err |-> TRUE]
        ELSE IF ~fetchResult.Body.parses
        THEN [result |-> OneError(result, "Failed to parse gbfs.json"),
              feed |-> NoFeed, err |-> TRUE]
        ELSE LET feed == [TTL |-> fetchResult.Body.TTL,
                          Version |-> fetchResult.Body.Version,
                          Feeds |-> feeds]
             IN  [result |-> WithSchemaErrors(result, validateGBFSStructure(feed)),
                  feed |-> feed, err |-> FALSE]

\* buildFeedURLMap maps feed names to URLs: a later feed of the same name
\* overwrites an earlier one.
buildFeedURLMap(feed) ==
    [n \in {feed.Feeds[i].Name : i \in DOMAIN feed.Feeds} |->
        LET last == CHOOSE i \in DOMAIN feed.Feeds :
                        /\ feed.Feeds[i].Name = n
                        /\ \A j \in DOMAIN feed.Feeds : feed.Feeds[j].Name = n => j <= i
        IN  feed.Feeds[last].URL]

\* A worker that records nothing for a document feedURLs does not hold.
notListedResultSilent(req) == FileResult(req.File \o ".json", "", req.Required)

\* The worker of validateFiles for a document feedURLs does not hold.
notListedResult(req) ==
    LET result == FileResult(req.File \o ".json", "", req.Required)
    IN  IF req.Required
        THEN OneError(result, "Required file " \o req.File
                              \o ".json not found in autodiscovery")
        ELSE result

\* The worker of validateFiles for a document whose fetch missed.
fetchMissedResult(req, url) ==
    LET result == FileResult(req.File \o ".json", url, req.Required)
    IN  IF req.Required
        THEN OneError(result, "Required file " \o req.File
                              \o ".json could not be fetched")
        ELSE result

\* The worker of validateFiles for a fetched document: coerced is the result
\* of Coerce on the body and count the length of the log Coerce returned
\* (lenient mode), then the structural validation.
fetchedResult(req, url, body, lenient, coerced, count) ==
    LET result == [FileResult(req.File \o ".json", url, req.Required)
                   EXCEPT !.Exists = TRUE, !.RawData = body,
                          !.CoercionCount = IF lenient /\ ~coerced.err THEN count ELSE 0]
        dataToValidate == IF lenient /\ ~coerced.err THEN coerced.Data ELSE body
    IN  WithSchemaErrors(result, validateFileStructure(dataToValidate, req.File))

(***************************************************************************)
(* pkg/validator: cross-file validation. results maps a document name to   *)
(* its FileValidationResult; the passes read RawData, the bytes as fetched.*)
(***************************************************************************)
\* ok && result.Exists && result.RawData != nil
Readable(results, name) ==
    /\ name \in DOMAIN results
    /\ results[name].Exists
    /\ results[name].RawData # NilData

\* The value the last object with the given id holds in a map built as
\*   for _, t := range items { m[t.id] = t }
LastWith(items, idField, id) ==
    items[CHOOSE i \in DOMAIN items :
            /\ StringOf(items[i], idField) = id
            /\ \A j \in DOMAIN items : StringOf(items[j], idField) = id => j <= i]

IdsOf(items, idField) == {StringOf(items[i], idField) : i \in DOMAIN items}

\* extractVehicleTypes reads vehicle types from vehicle_types.json: the
\* propulsion type of every vehicle type id.
extractVehicleTypes(results) ==
    IF ~Readable(results, "vehicle_types") THEN [id \in {} |-> ""]
    ELSE LET d == results["vehicle_types"].RawData
             items == TypedItems(d, {"vehicle_types"})
         IN  IF ~UnmarshalOK(d, {"vehicle_types"}, VehicleTypeKind) THEN [id \in {} |-> ""]
             ELSE [id \in IdsOf(items, "vehicle_type_id") |->
                      StringOf(LastWith(items, "vehicle_type_id", id), "propulsion_type")]

\* extractPricingPlans reads pricing plans from system_pricing_plans.json:
\* the set of plan ids.
extractPricingPlans(results) ==
    IF ~Readable(results, "system_pricing_plans") THEN {}
    ELSE LET d == results["system_pricing_plans"].RawData
         IN  IF ~UnmarshalOK(d, {"plans"}, PricingPlanKind) THEN {}
             ELSE IdsOf(TypedItems(d, {"plans"}), "plan_id")

\* extractStationIDs reads station IDs from station_information.json.
extractStationIDs(results) ==
    IF ~Readable(results, "station_information") THEN {}
    ELSE LET d == results["station_information"].RawData
         IN  IF ~UnmarshalOK(d, {"stations"}, StationKind) THEN {}
             ELSE IdsOf(TypedItems(d, {"stations"}), "station_id")

\* Error issues appended to a result and counted.
AppendCounted(r, issues) ==
    [r EXCEPT !.Errors = r.Errors \o issues,
              !.HasErrors = r.HasErrors \/ Len(issues) > 0,
              !.ErrorsCount = r.ErrorsCount + Len(issues)]

\* The Error issues of one vehicle in validateVehicleTypeReferences.
VehicleTypeErrors(vehicleTypes, i, vehicle) ==
    LET id == StringOf(vehicle, "vehicle_type_id")
    IN  IssueIf(id # "" /\ id \notin DOMAIN vehicleTypes,
                Issue(SeverityError,
                      "vehicle_type_id '" \o id \o "' not found in vehicle_types.json",
                      Idx("/data/vehicles/", i, "/vehicle_type_id")))

\* The Warning issue of one vehicle in validateVehicleTypeReferences: vt is
\* the zero VehicleType when the id is unknown.
VehicleRangeWarnings(vehicleTypes, i, vehicle) ==
    LET id == StringOf(vehicle, "vehicle_type_id")
        propulsion == IF id \in DOMAIN vehicleTypes THEN vehicleTypes[id] ELSE ""
    IN  IssueIf(id # "" /\ isMotorized(propulsion)
                /\ IsZeroNumber(vehicle, "current_range_meters"),
                Issue(SeverityWarning,
                      "current_range_meters is recommended for motorized vehicles",
                      Idx("/data/vehicles/", i, "")))

\* validateVehicleTypeReferences verifies vehicle_type_id references: an
\* Error is appended and counted, a Warning is appended only.
validateVehicleTypeReferences(results, vehicleTypes, ver) ==
    LET fileName == GetVehicleStatusFileName(ver)
    IN  IF ~Readable(results, fileName) THEN results
        ELSE IF DOMAIN vehicleTypes = {} THEN results
        ELSE LET d == results[fileName].RawData
                 PerVehicle(i, vehicle) ==
                     VehicleTypeErrors(vehicleTypes, i, vehicle)
                     \o VehicleRangeWarnings(vehicleTypes, i, vehicle)
                 PerVehicleErrors(i, vehicle) == VehicleTypeErrors(vehicleTypes, i, vehicle)
                 all == ForItems(GetVehicles(d), PerVehicle)
                 errs == ForItems(GetVehicles(d), PerVehicleErrors)
                 r == results[fileName]
             IN  IF ~UnmarshalOK(d, {"vehicles", "bikes"}, VehicleKind) THEN results
                 ELSE [results EXCEPT ![fileName] =
                          [r EXCEPT !.Errors = r.Errors \o all,
                                    !.HasErrors = r.HasErrors \/ Len(errs) > 0,
                                    !.ErrorsCount = r.ErrorsCount + Len(errs)]]

\* validatePricingPlanReferences verifies pricing_plan_id references.
validatePricingPlanReferences(results, pricingPlans, ver) ==
    IF pricingPlans = {} THEN results
    ELSE IF ~Readable(results, "vehicle_types") THEN results
    ELSE LET d == results["vehicle_types"].RawData
             PerType(i, t) ==
                 LET id == StringOf(t, "default_pricing_plan_id")
                 IN  IssueIf(id # "" /\ id \notin pricingPlans,
                             Issue(SeverityError,
                                   "default_pricing_plan_id '" \o id
                                   \o "' not found in system_pricing_plans.json",
                                   Idx("/data/vehicle_types/", i, "/default_pricing_plan_id")))
         IN  IF ~UnmarshalOK(d, {"vehicle_types"}, VehicleTypeKind) THEN results
             ELSE [results EXCEPT !["vehicle_types"] =
                      AppendCounted(@, ForItems(TypedItems(d, {"vehicle_types"}), PerType))]

\* validateStationIDReferences verifies station_id references.
validateStationIDReferences(results, stationIDs, ver) ==
    IF stationIDs = {} THEN results
    ELSE IF ~Readable(results, "station_status") THEN results
    ELSE LET d == results["station_status"].RawData
             PerStation(i, s) ==
                 LET id == StringOf(s, "station_id")
                 IN  IssueIf(id \notin stationIDs,
                             Issue(SeverityError,
                                   "station_id '" \o id
                                   \o "' not found in station_information.json",
                                   Idx("/data/stations/", i, "/station_id")))
         IN  IF ~UnmarshalOK(d, {"stations"}, StationStatusEntryKind) THEN results
             ELSE [results EXCEPT !["station_status"] =
                      AppendCounted(@, ForItems(TypedItems(d, {"stations"}), PerStation))]

\* The body shared by checkConditionalVehicleTypes and
\* checkConditionalPricingPlans: when a vehicle of the availability document
\* carries refField and the target document was not fetched, its entry (made
\* if the result set has none) becomes required and gets one more Error.
checkConditional(results, ver, refField, target) ==
    LET fileName == GetVehicleStatusFileName(ver)
    IN  IF ~Readable(results, fileName) THEN results
        ELSE LET d == results[fileName].RawData
                 vehicles == GetVehicles(d)
                 hasRef == \E i \in DOMAIN vehicles : StringOf(vehicles[i], refField) # ""
                 r == IF target \in DOMAIN results THEN results[target]
                      ELSE FileResult(target \o ".json", "", TRUE)
             IN  IF ~UnmarshalOK(d, {"vehicles", "bikes"}, VehicleKind) THEN results
                 ELSE IF hasRef /\ (target \notin DOMAIN results \/ ~results[target].Exists)
                 THEN Put(results, target,
                          [r EXCEPT !.Required = TRUE, !.HasErrors = TRUE,
                                    !.ErrorsCount = r.ErrorsCount + 1,
                                    !.Errors = Append(r.Errors,
                                       Issue(SeverityError,
                                             target \o ".json is required when " \o refField
                                             \o " is used in " \o fileName \o ".json", ""))])
                 ELSE results

\* checkConditionalVehicleTypes enforces vehicle_types.json requirement.
checkConditionalVehicleTypes(results, ver) ==
    checkConditional(results, ver, "vehicle_type_id", "vehicle_types")

\* checkConditionalPricingPlans enforces system_pricing_plans.json requirement.
checkConditionalPricingPlans(results, ver) ==
    checkConditional(results, ver, "pricing_plan_id", "system_pricing_plans")

\* crossValidate validates cross-file references: the three extractions read
\* the result set before any pass changes it.
crossValidate(results, ver) ==
    LET vehicleTypes == extractVehicleTypes(results)
        pricingPlans == extractPricingPlans(results)
        stationIDs == extractStationIDs(results)
        r1 == validateVehicleTypeReferences(results, vehicleTypes, ver)
        r2 == validatePricingPlanReferences(r1, pricingPlans, ver)
        r3 == validateStationIDReferences(r2, stationIDs, ver)
        r4 == checkConditionalVehicleTypes(r3, ver)
    IN  checkConditionalPricingPlans(r4, ver)

(***************************************************************************)
(* pkg/validator: the report Validate returns.                             *)
(***************************************************************************)
\* A ValidationSummary; Coercions is the TotalCoercions of the
\* CoercionSummary and HasCoercionSummary whether there is one.
Summary(lenient, hasErrors, errorsCount, unimplemented, detected, validated, coercions) ==
    [LenientMode |-> lenient, HasErrors |-> hasErrors, ErrorsCount |-> errorsCount,
     VersionUnimplemented |-> unimplemented, Detected |-> detected,
     Validated |-> validated,
     HasCoercionSummary |-> lenient /\ coercions > 0,
     TotalCoercions |-> IF lenient /\ coercions > 0 THEN coercions ELSE 0]

RECURSIVE SumErrorsCount(_, _)
SumErrorsCount(files, k) ==
    IF k > Len(files) THEN 0 ELSE files[k].ErrorsCount + SumErrorsCount(files, k + 1)

RECURSIVE SumCoercionCount(_, _)
SumCoercionCount(files, k) ==
    IF k > Len(files) THEN 0 ELSE files[k].CoercionCount + SumCoercionCount(files, k + 1)

\* An early return that leaves the summary as Validate initialised it.
ValidateEarlyReturnUnflagged(gbfsResult, lenient) ==
    [Summary |-> Summary(lenient, FALSE, 0, FALSE, "", "", 0),
     Files |-> <<gbfsResult>>]

\* Validate, when validateGBFS returned an error or no feed: the manifest
\* entry alone, and a summary that only says the version is unimplemented.
ValidateEarlyReturn(gbfsResult, lenient) ==
    [Summary |-> Summary(lenient, FALSE, 0, TRUE, "", "", 0),
     Files |-> <<gbfsResult>>]

\* The version of the manifest, taken as declared.
DetectedVersionAsDeclared(feed) == feed.Version

\* detectedVersion of Validate
DetectedVersion(feed) == IF feed.Version = "" THEN "1.0" ELSE feed.Version

\* validatedVersion of Validate
ValidatedVersion(optVersion, feed) ==
    IF optVersion = "" THEN DetectedVersion(feed) ELSE optVersion

\* The entries of a result set, in the order of a key list.
RECURSIVE InOrder(_, _)
InOrder(fileResults, order) ==
    IF order = <<>> THEN <<>>
    ELSE <<fileResults[Head(order)]>> \o InOrder(fileResults, Tail(order))

\* Validate, after crossValidate: the manifest entry, then the entries of the
\* result set in the order the iteration of the map visits them; the flag
\* and the count are accumulated over the documents, and the flag alone is
\* raised for the manifest.
ValidateAggregate(gbfsResult, fileResults, order, lenient, detected, validated) ==
    LET docs == InOrder(fileResults, order)
    IN  [Summary |-> Summary(lenient,
                             (\E i \in DOMAIN docs : docs[i].HasErrors)
                                 \/ gbfsResult.HasErrors,
                             SumErrorsCount(docs, 1),
                             FALSE, detected, validated,
                             SumCoercionCount(docs, 1)),
         Files |-> <<gbfsResult>> \o docs]

\* The names of a requirement list, in its order.
ReqFileSeq(reqs) == [i \in DOMAIN reqs |-> reqs[i].File]

\* The keys of a result set in the order of a name list, then the keys the
\* list does not hold.
KeysInOrder(results, names) ==
    SelectSeq(names, LAMBDA n : n \in DOMAIN results)
    \o SelectSeq(<<"vehicle_types", "system_pricing_plans">>,
                 LAMBDA n : n \in DOMAIN results
                            /\ \A i \in DOMAIN names : names[i] # n)

RECURSIVE Reverse(_)
Reverse(s) == IF s = <<>> THEN <<>> ELSE Reverse(Tail(s)) \o <<Head(s)>>

\* for _, fr := range fileResults: orders in which the map may be visited.
MapOrders(results, reqs) ==
    {KeysInOrder(results, ReqFileSeq(reqs)),
     Reverse(KeysInOrder(results, ReqFileSeq(reqs)))}

(***************************************************************************)
(* The values of the variables a specification does not use.               *)
(***************************************************************************)
NoCoerce == [err |-> TRUE, Data |-> BadJSON, Log |-> <<>>]

PolicyIdle ==
    /\ pVersion = ""
    /\ pOpts = [Docked |-> FALSE, Freefloating |-> FALSE]
    /\ pReqs = <<>>
    /\ pName = Unset
    /\ pGbfs = Unset

CoerceIdle ==
    /\ cPhase = "idle"
    /\ cType = ""
    /\ cOpts = DefaultLenientOptions
    /\ cIn = BadJSON
    /\ cStrict = <<>>
    /\ cFirst = NoCoerce
    /\ cLenient = <<>>
    /\ cSecond = NoCoerce

NoGBFS == [result |-> FileResult("gbfs.json", "", TRUE), feed |-> NoFeed, err |-> TRUE]

NoReport == [Summary |-> Summary(FALSE, FALSE, 0, FALSE, "", "", 0), Files |-> <<>>]

RunUnstarted ==
    /\ vManifestReqs = <<>>
    /\ vGbfs = NoGBFS
    /\ vResp = <<>>
    /\ vFileResults = <<>>
    /\ vResults = <<>>
    /\ vReport = NoReport

NoContext == [cancelled |-> FALSE, inFlight |-> {}]

WorkersUnstarted ==
    /\ wUnlisted = FALSE
    /\ wLog = <<>>
    /\ wResults = <<>>
    /\ wCtx = NoContext
    /\ wReport = NoReport

WorkersIdle ==
    /\ wPhase = "idle"
    /\ wIn = [Version |-> "", Flags |-> [Docked |-> FALSE, Freefloating |-> FALSE],
              LenientMode |-> FALSE, FeedURLs |-> <<>>]
    /\ wWorkers = <<>>
    /\ WorkersUnstarted

ValidateIdle ==
    /\ vPc = "idle"
    /\ vOpts = ValidatorOptions(FALSE, FALSE, "", FALSE)
    /\ vUrlIsGbfsJson = TRUE
    /\ RunUnstarted

FetchIdle ==
    /\ fAuth = "none"
    /\ fToken = ""
    /\ fCalls = <<>>
    /\ fExchanges = <<>>

RunIdle == ValidateIdle /\ WorkersIdle

(***************************************************************************)
(* The documents the coercer and the structural validator are run on: at   *)
(* most MaxFields members are present, each holding a value of the         *)
(* catalogue, in the places the code of the feed type reads.               *)
(***************************************************************************)
MaxFields == 1

FeedTypes ==
    {"station_status", "station_information", "vehicle_status",
     "free_bike_status", "vehicle_types", "system_information",
     "geofencing_zones", "system_alerts"}

\* The values of a member in the bytes of a document.
InputValues ==
    {VBool(TRUE), VNum("1"), VNum("1.5"), VNum(BigIntText),
     VStr("1"), VStr(" TRUE "), VStr("maybe"), VStr("1.5"), VStr(BigIntText),
     VStr("2024-01-02T03:04:05Z"), VStr("2024-01-02"), VNull}

\* The member of data that holds the collection of a feed type.
KeyOf(t) ==
    CASE t \in {"station_status", "station_information"} -> "stations"
      [] t = "vehicle_status" -> "vehicles"
      [] t = "free_bike_status" -> "bikes"
      [] t = "vehicle_types" -> "vehicle_types"
      [] t = "geofencing_zones" -> "geofencing_zones"
      [] OTHER -> ""

\* The field map the coercer applies to the objects of the collection.
RulesOf(t) ==
    CASE t = "station_status" -> StationStatusRules
      [] t = "station_information" -> StationInformationRules
      [] t \in {"vehicle_status", "free_bike_status"} -> VehicleStatusRules
      [] t = "vehicle_types" -> VehicleTypesRules
      [] t = "geofencing_zones" -> GeofencingRuleRules
      [] OTHER -> <<>>

\* The member the structural validator requires of an object of the collection.
IdFieldOf(t) ==
    CASE t \in {"station_status", "station_information"} -> {"station_id"}
      [] t = "vehicle_status" -> {"vehicle_id"}
      [] t = "free_bike_status" -> {"bike_id"}
      [] t = "vehicle_types" -> {"vehicle_type_id"}
      [] OTHER -> {}

MembersOf(t) ==
    ({"top"} \X {"last_updated", "ttl"})
    \cup ({"obj"} \X (IF t = "system_information"
                      THEN {"start_date", "end_date", "system_id"} ELSE {}))
    \cup ({"item"} \X ({RulesOf(t)[i].field : i \in DOMAIN RulesOf(t)} \cup IdFieldOf(t)))

\* The object made of the members of S at one place.
ObjectAt(S, f, place) ==
    [k \in {m[2] : m \in {x \in S : x[1] = place}} |-> f[<<place, k>>]]

\* The document with the members S, valued by f, whose object is at index pad.
BuildDoc(t, S, f, pad) ==
    Doc(ObjectAt(S, f, "top"), "object", ObjectAt(S, f, "obj"), KeyOf(t),
        IF KeyOf(t) = "" THEN <<>>
        ELSE [i \in 1..pad |-> EmptyObj] \o <<ObjectAt(S, f, "item")>>)

InputDocs(t) ==
    UNION { UNION { {BuildDoc(t, S, f, pad) : pad \in 0..1} : f \in [S -> InputValues] }
            : S \in {X \in SUBSET MembersOf(t) : Cardinality(X) <= MaxFields} }
    \cup {BadJSON,
          Doc(EmptyObj, "null", EmptyObj, "", <<>>),
          Doc(EmptyObj, "absent", EmptyObj, "", <<>>),
          Doc(EmptyObj, "object", EmptyObj, "", <<>>)}

(***************************************************************************)
(* SpecCoerce: one document of one feed type is validated as fetched (the  *)
(* strict worker), coerced and validated (the lenient worker), and the     *)
(* coerced bytes are coerced once more by the same Coercer.                *)
(***************************************************************************)
InitCoerce ==
    /\ PolicyIdle
    /\ RunIdle
    /\ FetchIdle
    /\ cPhase = "input"
    /\ cType \in FeedTypes
    /\ cOpts \in CoerceOptionSets
    /\ cIn \in InputDocs(cType)
    /\ cStrict = <<>>
    /\ cFirst = NoCoerce
    /\ cLenient = <<>>
    /\ cSecond = NoCoerce

\* The worker of validateFiles with no coercer: the bytes as fetched.
StrictValidate ==
    /\ cPhase = "input"
    /\ cPhase' = "strict"
    /\ cStrict' = validateFileStructure(cIn, cType)
    /\ UNCHANGED <<policyVars, runVars, fetchVars, cType, cOpts, cIn, cFirst, cLenient, cSecond>>

\* The worker of validateFiles with a coercer: Coerce, then the validation
\* of the coerced bytes (of the bytes as fetched when Coerce fails).
LenientValidate ==
    /\ cPhase = "strict"
    /\ cPhase' = "lenient"
    /\ cFirst' = Coerce(cIn, cType, cOpts)
    /\ cLenient' = validateFileStructure(IF cFirst'.err THEN cIn ELSE cFirst'.Data, cType)
    /\ UNCHANGED <<policyVars, runVars, fetchVars, cType, cOpts, cIn, cStrict, cSecond>>

\* Coerce on the output of the first call.
CoerceAgain ==
    /\ cPhase = "lenient"
    /\ ~cFirst.err
    /\ cPhase' = "again"
    /\ cSecond' = Coerce(cFirst.Data, cType, cOpts)
    /\ UNCHANGED <<policyVars, runVars, fetchVars, cType, cOpts, cIn, cStrict, cFirst, cLenient>>

NextCoerce == StrictValidate \/ LenientValidate \/ CoerceAgain

SpecCoerce == InitCoerce /\ [][NextCoerce]_vars

(***************************************************************************)
(* The feeds Validate is run on: manifests that list at most MaxListed     *)
(* documents of a pool or the three documents of a docked system, and for  *)
(* each document the responses a server may give.                          *)
(***************************************************************************)
MaxListed == 2

DocPool ==
    <<"system_information", "station_information", "station_status",
      "vehicle_status", "free_bike_status", "vehicle_types",
      "system_pricing_plans">>

Hdr == [last_updated |-> VNum("1700000000"), ttl |-> VNum("0")]

HdrNoTTL == [last_updated |-> VNum("1700000000")]

SystemInfoBodies ==
    {Doc(Hdr, "object",
         [system_id |-> VStr("sys"), timezone |-> VStr("UTC"), name |-> VStr("n")],
         "", <<>>),
     Doc(Hdr, "object", [system_id |-> VStr("sys"), timezone |-> VStr("UTC")], "", <<>>),
     Doc(HdrNoTTL, "object",
         [system_id |-> VStr("sys"), timezone |-> VStr("UTC"), name |-> VStr("n")],
         "", <<>>),
     BadJSON}

StationRow(id) == [station_id |-> VStr(id), lat |-> VNum("1.5"), lon |-> VNum("40.5")]

StationInfoBodies ==
    {Doc(Hdr, "object", EmptyObj, "stations", <<StationRow("s1")>>),
     Doc(Hdr, "object", EmptyObj, "stations", <<>>),
     BadJSON}

StatusRow(id, installed) ==
    [station_id |-> VStr(id), is_installed |-> installed,
     is_renting |-> VBool(TRUE), is_returning |-> VBool(TRUE)]

StationStatusBodies ==
    {Doc(Hdr, "object", EmptyObj, "stations", <<StatusRow(id, installed)>>) :
        id \in {"s1", "s9"}, installed \in {VBool(TRUE), VStr("1")}}

\* The vehicles of an availability document, under the key and with the id
\* member of its version.
VehicleLists(idField) ==
    LET V(id) == [k \in {idField} |-> VStr(id)]
    IN  {<<V("v1")>>,
         <<Put(V("v1"), "vehicle_type_id", VStr("a"))>>,
         <<V("v0"), Put(V("v1"), "vehicle_type_id", VStr("x"))>>,
         <<Put(V("v1"), "pricing_plan_id", VStr("p"))>>}

VehicleStatusBodies ==
    {Doc(Hdr, "object", EmptyObj, "vehicles", l) : l \in VehicleLists("vehicle_id")}

FreeBikeStatusBodies ==
    {Doc(Hdr, "object", EmptyObj, "bikes", l) : l \in VehicleLists("bike_id")}

TypeRow(id, propulsion) ==
    [vehicle_type_id |-> VStr(id), form_factor |-> VStr("bicycle"),
     propulsion_type |-> VStr(propulsion), max_range_meters |-> VNum("5")]

VehicleTypesBodies ==
    {Doc(Hdr, "object", EmptyObj, "vehicle_types", <<TypeRow("a", "human")>>),
     Doc(Hdr, "object", EmptyObj, "vehicle_types", <<TypeRow("a", "electric")>>),
     Doc(Hdr, "object", EmptyObj, "vehicle_types",
         <<Put(TypeRow("a", "human"), "default_pricing_plan_id", VStr("p9"))>>),
     Doc(Hdr, "object", EmptyObj, "vehicle_types", <<>>)}

PricingPlansBodies ==
    {Doc(Hdr, "object", EmptyObj, "plans", <<[plan_id |-> VStr("p")]>>),
     BadJSON}

BodiesOf(name) ==
    CASE name = "system_information" -> SystemInfoBodies
      [] name = "station_information" -> StationInfoBodies
      [] name = "station_status" -> StationStatusBodies
      [] name = "vehicle_status" -> VehicleStatusBodies
      [] name = "free_bike_status" -> FreeBikeStatusBodies
      [] name = "vehicle_types" -> VehicleTypesBodies
      [] name = "system_pricing_plans" -> PricingPlansBodies
      [] OTHER -> {Doc(Hdr, "object", EmptyObj, "", <<>>)}

\* The responses to the request for a document.
ResponsesOf(name) == {NotFound, ServerError} \cup {Found(b) : b \in BodiesOf(name)}

\* One response for each of the names.
RECURSIVE ResponseMaps(_)
ResponseMaps(names) ==
    IF names = {} THEN {<<>>}
    ELSE LET n == CHOOSE x \in names : TRUE
         IN  {Put(r, n, x) : r \in ResponseMaps(names \ {n}), x \in ResponsesOf(n)}

\* The feed list that names the documents of L, each with its URL.
ListingOf(L) ==
    LET names == SelectSeq(DocPool, LAMBDA n : n \in L)
    IN  [i \in DOMAIN names |-> FeedInfo(names[i], "https://host/" \o names[i] \o ".json")]

ListingsUpTo(n) ==
    {ListingOf(L) : L \in {X \in SUBSET {DocPool[i] : i \in DOMAIN DocPool} :
                              Cardinality(X) <= n}}

\* The manifest of a docked system: the three documents it must publish.
DockedListing ==
    ListingOf({"system_information", "station_information", "station_status"})

Listings == ListingsUpTo(MaxListed) \cup {DockedListing}

ShortListings == ListingsUpTo(MaxListed - 1)

ManifestVersions == {"", "2.3", "3.0"}

\* A version the manifest may declare that is no key of the version table.
UndefinedVersion == "2.4"

\* The manifests: well-formed ones of every version and listing; for the
\* short listings, those declaring a version the table lacks and, for
\* version 3.0, those with a negative ttl, with a feed that has no name, and
\* with a second language that lists nothing; and bytes that do not decode.
Manifests ==
    {ManifestBody(TRUE, 0, ver, "flat", <<l>>) : ver \in ManifestVersions, l \in Listings}
    \cup {ManifestBody(TRUE, 0, UndefinedVersion, "flat", <<l>>) : l \in ShortListings}
    \cup {ManifestBody(TRUE, -1, "3.0", "flat", <<l>>) : l \in ShortListings}
    \cup {ManifestBody(TRUE, 0, "3.0", "flat",
                       <<l \o <<FeedInfo("", "https://host/x.json")>> >>) : l \in ShortListings}
    \cup {ManifestBody(TRUE, 0, "3.0", "languages", <<l, <<>> >>) : l \in ShortListings}
    \cup {ManifestBody(FALSE, 0, "", "flat", <<>>)}

\* The manifest FallbackResponses serves.
FallbackManifest ==
    ManifestBody(TRUE, 0, "3.0", "flat", <<ListingOf({"system_information"})>>)

\* The responses to the request for the manifest at the given URL: every
\* manifest at a URL that ends in gbfs.json; at a base URL, no response, no
\* document, or one manifest.
ManifestResponses(urlIsGbfsJson) ==
    IF urlIsGbfsJson
    THEN {NotFound, TransportError} \cup {Found(m) : m \in Manifests}
    ELSE {NotFound, TransportError, Found(FallbackManifest)}

\* The responses to the request for the manifest at the fallback URL.
FallbackResponses == {NotFound, ServerError, Found(FallbackManifest)}

\* The options of a run: every combination of the flags and of lenient mode
\* with the version of the manifest, and the flags with version 1.1 forced.
OptionSets ==
    {ValidatorOptions(d, f, "", l) : d \in BOOLEAN, f \in BOOLEAN, l \in BOOLEAN}
    \cup {ValidatorOptions(d, f, "1.1", FALSE) : d \in BOOLEAN, f \in BOOLEAN}

(***************************************************************************)
(* SpecValidate: one call of Validate, from the request for the manifest   *)
(* to the report, for every option set, URL form, manifest and response    *)
(* of the catalogue. The workers of validateFiles are taken together here; *)
(* their interleavings are those of SpecWorkers.                           *)
(***************************************************************************)
InitValidate ==
    /\ PolicyIdle
    /\ CoerceIdle
    /\ WorkersIdle
    /\ FetchIdle
    /\ vPc = "start"
    /\ vOpts \in OptionSets
    /\ vUrlIsGbfsJson \in BOOLEAN
    /\ RunUnstarted

\* The worker of validateFiles for one requirement, given the response to
\* its request (if it makes one) and the length of the log it reads.
WorkerResult(req, feedURLs, resps, lenient, counts) ==
    IF req.File \notin DOMAIN feedURLs THEN notListedResult(req)
    ELSE LET fr == Fetch(resps[req.File], FALSE)
         IN  IF FetchMissed(fr) THEN fetchMissedResult(req, feedURLs[req.File])
             ELSE fetchedResult(req, feedURLs[req.File], fr.Body, lenient,
                                Coerce(fr.Body, req.File, DefaultLenientOptions),
                                counts[req.File])

\* The lengths of the logs the workers may read. The workers share one
\* Coercer, whose log each call of Coerce resets, extends and returns with no
\* synchronisation: a single caller reads its own records; when several
\* workers call Coerce, a worker reads any number of the records appended.
LogLengths(resps, lenient) ==
    LET callers == {n \in DOMAIN resps : lenient /\ ~FetchMissed(Fetch(resps[n], FALSE))}
        Own(n) == IF n \in callers
                  THEN Len(Coerce(resps[n].body, n, DefaultLenientOptions).Log)
                  ELSE 0
        names == SelectSeq(DocPool, LAMBDA n : n \in callers)
        total == SumCoercionCount([i \in DOMAIN names |-> [CoercionCount |-> Own(names[i])]], 1)
    IN  IF Cardinality(callers) <= 1
        THEN {[n \in DOMAIN resps |-> Own(n)]}
        ELSE {c \in [DOMAIN resps -> 0..total] : \A n \in DOMAIN resps \ callers : c[n] = 0}

\* validateFiles fetches and validates required files.
validateFiles(feedURLs, requirements, resps, lenient, counts) ==
    Table([n \in ReqNames(requirements) |->
        WorkerResult(requirements[CHOOSE i \in DOMAIN requirements : requirements[i].File = n],
                     feedURLs, resps, lenient, counts)])

\* Validate performs a full feed validation.
Validate ==
    /\ vPc = "start"
    /\ vPc' = "returned"
    /\ \E first \in ManifestResponses(vUrlIsGbfsJson) :
       \E second \in (IF GBFSRetried(Fetch(first, FALSE), vUrlIsGbfsJson)
                      THEN FallbackResponses ELSE {first}) :
          LET f1 == Fetch(first, FALSE)
              retried == GBFSRetried(f1, vUrlIsGbfsJson)
              f2 == Fetch(second, FALSE)
              used == IF retried THEN f2 ELSE f1
          IN  /\ vManifestReqs' = IF retried THEN <<first, second>> ELSE <<first>>
              /\ \E feeds \in (IF ~FetchMissed(used) /\ used.Body.parses
                               THEN GBFSDataFeeds(used.Body) ELSE {<<>>}) :
                   LET g == validateGBFS(f1, f2, vUrlIsGbfsJson, vOpts.Version, feeds)
                       detected == DetectedVersion(g.feed)
                       validated == ValidatedVersion(vOpts.Version, g.feed)
                       feedURLs == buildFeedURLMap(g.feed)
                       requirements ==
                           GetFileRequirements(validated,
                               [Docked |-> vOpts.Docked, Freefloating |-> vOpts.Freefloating])
                   IN  /\ vGbfs' = g
                       /\ IF g.err
                          THEN /\ vResp' = <<>>
                               /\ vFileResults' = <<>>
                               /\ vResults' = <<>>
                               /\ vReport' = ValidateEarlyReturn(g.result, vOpts.LenientMode)
                          ELSE \E resps \in ResponseMaps(ReqNames(requirements)
                                                         \cap DOMAIN feedURLs) :
                               \E counts \in LogLengths(resps, vOpts.LenientMode) :
                                 LET fileResults ==
                                         validateFiles(feedURLs, requirements, resps,
                                                       vOpts.LenientMode, counts)
                                     crossed == crossValidate(fileResults, validated)
                                 IN  /\ vResp' = resps
                                     /\ vFileResults' = fileResults
                                     /\ vResults' = crossed
                                     /\ \E order \in MapOrders(crossed, requirements) :
                                          vReport' = ValidateAggregate(g.result, crossed, order,
                                                         vOpts.LenientMode, detected, validated)
    /\ UNCHANGED <<policyVars, coerceVars, workerVars, fetchVars, vOpts, vUrlIsGbfsJson>>

NextValidate == Validate

SpecValidate == InitValidate /\ [][NextValidate]_vars

(***************************************************************************)
(* SpecWorkers: validateFiles and the rest of Validate, one step of one    *)
(* goroutine at a time. A worker whose document feedURLs holds calls Fetch,*)
(* then, in lenient mode, Coerce on the Coercer all workers share: Coerce  *)
(* resets c.log, appends a record per coercion and returns c.log, with no  *)
(* lock. The context may be cancelled at any moment. The workers of the    *)
(* documents feedURLs lacks do no I/O and read no shared state: they       *)
(* publish in one step.                                                    *)
(***************************************************************************)
MaxWorkers == 2

WorkerPool == {"system_information", "station_status", "vehicle_types"}

WorkerVersions == {"2.3", "3.0"}

WorkerFlagSets == {[Docked |-> d, Freefloating |-> FALSE] : d \in BOOLEAN}

\* The bodies a server may give a worker.
WorkerBodies(name) ==
    CASE name = "system_information" ->
             {Doc(Hdr, "object",
                  [system_id |-> VStr("sys"), timezone |-> VStr("UTC"), name |-> VStr("n")],
                  "", <<>>),
              BadJSON}
      [] name = "station_status" ->
             {Doc(Hdr, "object", EmptyObj, "stations", <<StatusRow("s1", installed)>>) :
                 installed \in {VBool(TRUE), VStr("1")}}
      [] name = "vehicle_types" ->
             {Doc(Hdr, "object", EmptyObj, "vehicle_types", <<TypeRow("a", "human")>>)}

WorkerResponses(name) == {NotFound} \cup {Found(b) : b \in WorkerBodies(name)}

\* feedURLs for the documents of L.
FeedURLsOf(L) == [n \in L |-> "https://host/" \o n \o ".json"]

WorkerInputs ==
    {[Version |-> v, Flags |-> o, LenientMode |-> l, FeedURLs |-> FeedURLsOf(L)] :
        v \in WorkerVersions, o \in WorkerFlagSets, l \in BOOLEAN,
        L \in {X \in SUBSET WorkerPool : Cardinality(X) <= MaxWorkers}}

\* The requirements validateFiles is called with.
WorkerRequirements == GetFileRequirements(wIn.Version, wIn.Flags)

RequirementOf(name) ==
    WorkerRequirements[CHOOSE i \in DOMAIN WorkerRequirements :
                          WorkerRequirements[i].File = name]

\* A worker: where it is, the response it got, the body it holds and the
\* number of the next record its call of Coerce appends.
Worker(pc, resp, body, next) == [pc |-> pc, resp |-> resp, body |-> body, next |-> next]

NoResponse == Response("none", 0, NilData)

InitWorkers ==
    /\ PolicyIdle
    /\ CoerceIdle
    /\ ValidateIdle
    /\ FetchIdle
    /\ wPhase = "running"
    /\ wIn \in WorkerInputs
    /\ wWorkers = [n \in DOMAIN wIn.FeedURLs \cap ReqNames(WorkerRequirements) |->
                      Worker("fetching", NoResponse, NilData, 1)]
    /\ WorkersUnstarted

\* The workers of the documents that feedURLs does not hold.
PublishUnlisted ==
    /\ wPhase = "running"
    /\ ~wUnlisted
    /\ wUnlisted' = TRUE
    /\ wResults' = Table([n \in DOMAIN wResults
                                \cup (ReqNames(WorkerRequirements) \ DOMAIN wIn.FeedURLs) |->
                             IF n \in DOMAIN wResults THEN wResults[n]
                             ELSE notListedResult(RequirementOf(n))])
    /\ UNCHANGED <<policyVars, coerceVars, validateVars, fetchVars,
                   wPhase, wIn, wWorkers, wLog, wCtx, wReport>>

\* mu.Lock(); results[req.File] = result; mu.Unlock(); return
Publish(n, result, resp) ==
    /\ wResults' = Put(wResults, n, result)
    /\ wWorkers' = [wWorkers EXCEPT ![n] = Worker("done", resp, NilData, 1)]

\* Fetch returns to the worker of n: a missed fetch is published; without a
\* Coercer the body is validated and published; with one, Coerce is called.
FetchReturn(n) ==
    /\ wPhase = "running"
    /\ wWorkers[n].pc = "fetching"
    /\ \E resp \in WorkerResponses(n) :
          LET fr == Fetch(resp, wCtx.cancelled)
              req == RequirementOf(n)
              url == wIn.FeedURLs[n]
          IN  IF FetchMissed(fr)
              THEN /\ Publish(n, fetchMissedResult(req, url), resp)
                   /\ UNCHANGED wLog
              ELSE IF ~wIn.LenientMode
              THEN /\ Publish(n, fetchedResult(req, url, fr.Body, FALSE, NoCoerce, 0), resp)
                   /\ UNCHANGED wLog
              ELSE /\ wWorkers' = [wWorkers EXCEPT ![n] = Worker("fetched", resp, fr.Body, 1)]
                   /\ UNCHANGED <<wLog, wResults>>
    /\ UNCHANGED <<policyVars, coerceVars, validateVars, fetchVars,
                   wPhase, wIn, wUnlisted, wCtx, wReport>>

\* Coerce, first statement: c.log = CoercionLog{}; then json.Unmarshal, whose
\* failure returns the error, after which the worker validates the bytes as
\* fetched and publishes.
CoerceBegin(n) ==
    /\ wPhase = "running"
    /\ wWorkers[n].pc = "fetched"
    /\ wLog' = <<>>
    /\ LET w == wWorkers[n]
           coerced == Coerce(w.body, n, DefaultLenientOptions)
       IN  IF coerced.err
           THEN Publish(n, fetchedResult(RequirementOf(n), wIn.FeedURLs[n], w.body,
                                         TRUE, coerced, 0), w.resp)
           ELSE /\ wWorkers' = [wWorkers EXCEPT ![n].pc = "coercing"]
                /\ UNCHANGED wResults
    /\ UNCHANGED <<policyVars, coerceVars, validateVars, fetchVars,
                   wPhase, wIn, wUnlisted, wCtx, wReport>>

\* logCoercion: c.log.Coercions = append(c.log.Coercions, ...), for the next
\* coercion of the document.
CoerceAppend(n) ==
    /\ wPhase = "running"
    /\ wWorkers[n].pc = "coercing"
    /\ LET w == wWorkers[n]
           own == Coerce(w.body, n, DefaultLenientOptions).Log
       IN  /\ w.next <= Len(own)
           /\ wLog' = Append(wLog, own[w.next])
           /\ wWorkers' = [wWorkers EXCEPT ![n].next = w.next + 1]
    /\ UNCHANGED <<policyVars, coerceVars, validateVars, fetchVars,
                   wPhase, wIn, wUnlisted, wResults, wCtx, wReport>>

\* Coerce returns Result{Data, Log: c.log}; the worker takes the length of
\* that log as CoercionCount, validates the coerced bytes and publishes.
CoerceReturn(n) ==
    /\ wPhase = "running"
    /\ wWorkers[n].pc = "coercing"
    /\ LET w == wWorkers[n]
           coerced == Coerce(w.body, n, DefaultLenientOptions)
       IN  /\ w.next > Len(coerced.Log)
           /\ Publish(n, fetchedResult(RequirementOf(n), wIn.FeedURLs[n], w.body,
                                       TRUE, coerced, Len(wLog)), w.resp)
    /\ UNCHANGED <<policyVars, coerceVars, validateVars, fetchVars,
                   wPhase, wIn, wUnlisted, wLog, wCtx, wReport>>

\* The deadline of the caller's context expires.
Cancel ==
    /\ wPhase = "running"
    /\ ~wCtx.cancelled
    /\ wCtx' = [cancelled |-> TRUE,
                inFlight |-> {n \in DOMAIN wWorkers : wWorkers[n].pc = "fetching"}]
    /\ UNCHANGED <<policyVars, coerceVars, validateVars, fetchVars,
                   wPhase, wIn, wWorkers, wUnlisted, wLog, wResults, wReport>>

\* The manifest entry of the run.
WorkersManifestEntry ==
    [FileResult("gbfs.json", "given", TRUE) EXCEPT !.Exists = TRUE]

\* wg.Wait() returning as soon as the goroutines of the unlisted documents are
\* done, whatever the goroutines of the listed ones are doing.
JoinAndReturnEarly ==
    /\ wPhase = "running"
    /\ wUnlisted
    /\ wPhase' = "returned"
    /\ LET crossed == crossValidate(wResults, wIn.Version)
       IN  \E order \in MapOrders(crossed, WorkerRequirements) :
              wReport' = ValidateAggregate(WorkersManifestEntry, crossed, order,
                                           wIn.LenientMode, wIn.Version, wIn.Version)
    /\ UNCHANGED <<policyVars, coerceVars, validateVars, fetchVars,
                   wIn, wWorkers, wUnlisted, wLog, wResults, wCtx>>

\* wg.Wait() returns; Validate cross-validates, aggregates and returns.
JoinAndReturn ==
    /\ wPhase = "running"
    /\ wUnlisted
    /\ \A n \in DOMAIN wWorkers : wWorkers[n].pc = "done"
    /\ wPhase' = "returned"
    /\ LET crossed == crossValidate(wResults, wIn.Version)
       IN  \E order \in MapOrders(crossed, WorkerRequirements) :
              wReport' = ValidateAggregate(WorkersManifestEntry, crossed, order,
                                           wIn.LenientMode, wIn.Version, wIn.Version)
    /\ UNCHANGED <<policyVars, coerceVars, validateVars, fetchVars,
                   wIn, wWorkers, wUnlisted, wLog, wResults, wCtx>>

WorkerStep ==
    \/ PublishUnlisted
    \/ \E n \in DOMAIN wWorkers :
          FetchReturn(n) \/ CoerceBegin(n) \/ CoerceAppend(n) \/ CoerceReturn(n)
    \/ JoinAndReturn

NextWorkers == WorkerStep \/ Cancel

SpecWorkers == InitWorkers /\ [][NextWorkers]_vars

\* After the return of Validate nothing changes.
Returned == wPhase = "returned" /\ UNCHANGED vars

\* SpecWorkers with the state after the return made a fixed point: a state
\* of this specification without a successor is a run that hangs.
SpecWorkersToReturn == InitWorkers /\ [][NextWorkers \/ Returned]_vars

(***************************************************************************)
(* SpecFetcher: the Fetcher of one run and the calls of Fetch the          *)
(* Validator makes on it, one step of one call at a time. validateGBFS     *)
(* fetches the manifest and, when that request failed at a base URL, the   *)
(* fallback URL; when the manifest was obtained, the workers of            *)
(* validateFiles call Fetch concurrently. Fetch creates the request,       *)
(* applies the authentication, sends the request and reads the answer.     *)
(* With the client-credentials strategy applyAuth calls getOAuthToken,     *)
(* which reads and writes f.token with no lock.                            *)
(***************************************************************************)
MaxFetchers == 2

AuthNone == "none"
AuthBearerToken == "bearer_token"
AuthOAuthClientCredentials == "oauth_client_credentials_grant"

\* The strategies of the runs checked.
AuthTypes == {AuthNone, AuthBearerToken, AuthOAuthClientCredentials}

\* f.auth.BearerToken.Token
ConfiguredToken == "static"

\* The Authorization header of a request: none, or "Bearer " and a token.
NoHeader == "<none>"

Bearer(token) == "Bearer " \o token

\* What the token endpoint and the network do with one exchange: no
\* response, or a response with a status and a body that decodes into
\* tokenResp or does not; token is the access_token member of the body,
\* "" when the body has none.
TokenAnswer(kind, status, decodes, token) ==
    [kind |-> kind, status |-> status, decodes |-> decodes, token |-> token]

TokenAnswers ==
    {TokenAnswer("transport_error", 0, FALSE, ""),
     TokenAnswer("response", 200, TRUE, "A"),
     TokenAnswer("response", 200, TRUE, "B"),
     TokenAnswer("response", 200, TRUE, ""),
     TokenAnswer("response", 401, TRUE, ""),
     TokenAnswer("response", 500, FALSE, "")}

\* client.Do or the decoding of the body returned an error.
ExchangeErrs(answer) == answer.kind = "transport_error" \/ ~answer.decodes

\* The answers to a request for a document.
FetchAnswers ==
    {Found(BadJSON), NotFound, ServerError, NoContent, TransportError, ReadError}

\* The calls of Fetch of a run: the manifest, the fallback URL, the workers.
ManifestCalls == {"gbfs", "gbfs_alt"}

FetcherPool == <<"system_information", "station_status", "vehicle_types">>

FetchWorkers == {FetcherPool[i] : i \in 1..MaxFetchers}

FetchCalls == ManifestCalls \cup FetchWorkers

\* A call of Fetch: where it is, the token getOAuthToken decoded, the
\* Authorization header of its request, the answer to the request and the
\* FetchResult returned.
Call(pc, tokenResp, header, resp, result) ==
    [pc |-> pc, tokenResp |-> tokenResp, header |-> header, resp |-> resp,
     result |-> result]

NoResult == FetchResult(FALSE, "", 0, NilData)

NotCalled == Call("waiting", "", NoHeader, NoResponse, NoResult)

InitFetcher ==
    /\ PolicyIdle
    /\ CoerceIdle
    /\ ValidateIdle
    /\ WorkersIdle
    /\ fAuth \in AuthTypes
    /\ fToken = ""
    /\ fCalls = [c \in FetchCalls |-> IF c = "gbfs" THEN [NotCalled EXCEPT !.pc = "start"]
                                      ELSE NotCalled]
    /\ fExchanges = <<>>

\* The call returns result.
FetchReturns(c, result) ==
    fCalls' = [fCalls EXCEPT ![c].pc = "done", ![c].result = result]

\* Fetch: http.NewRequestWithContext, which fails on a malformed URL.
NewRequest(c) ==
    /\ fCalls[c].pc = "start"
    /\ \E wellFormed \in BOOLEAN :
          IF wellFormed
          THEN fCalls' = [fCalls EXCEPT ![c].pc = "applyAuth"]
          ELSE FetchReturns(c, FetchResult(FALSE, "failed to create request", 0, NilData))
    /\ UNCHANGED <<policyVars, coerceVars, runVars, fAuth, fToken, fExchanges>>

\* applyAuth adds auth headers to a request.
applyAuth(c) ==
    /\ fCalls[c].pc = "applyAuth"
    /\ fCalls' =
          CASE fAuth = AuthNone ->
                   [fCalls EXCEPT ![c].pc = "do"]
            [] fAuth = AuthBearerToken ->
                   [fCalls EXCEPT ![c].pc = "do", ![c].header = Bearer(ConfiguredToken)]
            [] fAuth = AuthOAuthClientCredentials ->
                   [fCalls EXCEPT ![c].pc = "getOAuthToken"]
    /\ UNCHANGED <<policyVars, coerceVars, runVars, fAuth, fToken, fExchanges>>

\* getOAuthToken: if f.token != ""
TokenCheck(c) ==
    /\ fCalls[c].pc = "getOAuthToken"
    /\ fCalls' = [fCalls EXCEPT ![c].pc = IF fToken # "" THEN "cached" ELSE "exchange"]
    /\ UNCHANGED <<policyVars, coerceVars, runVars, fAuth, fToken, fExchanges>>

\* getOAuthToken: return f.token, nil; applyAuth sets the header.
TokenCached(c) ==
    /\ fCalls[c].pc = "cached"
    /\ fCalls' = [fCalls EXCEPT ![c].pc = "do", ![c].header = Bearer(fToken)]
    /\ UNCHANGED <<policyVars, coerceVars, runVars, fAuth, fToken, fExchanges>>

\* getOAuthToken: the request to the token endpoint and the decoding of the
\* answer, whatever its status.
TokenExchange(c) ==
    /\ fCalls[c].pc = "exchange"
    /\ \E answer \in TokenAnswers :
          /\ fExchanges' = Append(fExchanges, [by |-> c, answer |-> answer])
          /\ IF ExchangeErrs(answer)
             THEN FetchReturns(c, FetchResult(FALSE, "failed to apply authentication",
                                              0, NilData))
             ELSE fCalls' = [fCalls EXCEPT ![c].pc = "store",
                                           ![c].tokenResp = answer.token]
    /\ UNCHANGED <<policyVars, coerceVars, runVars, fAuth, fToken>>

\* getOAuthToken: f.token = tokenResp.AccessToken
TokenStore(c) ==
    /\ fCalls[c].pc = "store"
    /\ fToken' = fCalls[c].tokenResp
    /\ fCalls' = [fCalls EXCEPT ![c].pc = "return"]
    /\ UNCHANGED <<policyVars, coerceVars, runVars, fAuth, fExchanges>>

\* getOAuthToken: return f.token, nil; applyAuth sets the header.
TokenReturn(c) ==
    /\ fCalls[c].pc = "return"
    /\ fCalls' = [fCalls EXCEPT ![c].pc = "do", ![c].header = Bearer(fToken)]
    /\ UNCHANGED <<policyVars, coerceVars, runVars, fAuth, fToken, fExchanges>>

\* Fetch: client.Do, the status of the response and io.ReadAll.
Do(c) ==
    /\ fCalls[c].pc = "do"
    /\ \E resp \in FetchAnswers :
          fCalls' = [fCalls EXCEPT ![c].pc = "done", ![c].resp = resp,
                                   ![c].result = Fetch(resp, FALSE)]
    /\ UNCHANGED <<policyVars, coerceVars, runVars, fAuth, fToken, fExchanges>>

\* validateGBFS: the request for the manifest failed at a base URL, the
\* fallback URL is fetched.
FetchFallback ==
    /\ fCalls["gbfs"].pc = "done"
    /\ fCalls["gbfs_alt"].pc = "waiting"
    /\ GBFSRetried(fCalls["gbfs"].result, FALSE)
    /\ fCalls' = [fCalls EXCEPT !["gbfs_alt"].pc = "start"]
    /\ UNCHANGED <<policyVars, coerceVars, runVars, fAuth, fToken, fExchanges>>

\* The outcome validateGBFS goes on with.
ManifestFetched ==
    IF fCalls["gbfs_alt"].pc = "done" THEN fCalls["gbfs_alt"].result
    ELSE fCalls["gbfs"].result

\* validateFiles: the manifest was obtained, a goroutine per document starts.
StartWorkers ==
    /\ fCalls["gbfs"].pc = "done"
    /\ fCalls["gbfs_alt"].pc \in {"waiting", "done"}
    /\ ~GBFSRetried(fCalls["gbfs"].result, FALSE) \/ fCalls["gbfs_alt"].pc = "done"
    /\ ~FetchMissed(ManifestFetched)
    /\ \A w \in FetchWorkers : fCalls[w].pc = "waiting"
    /\ fCalls' = [c \in FetchCalls |->
                     IF c \in FetchWorkers THEN [fCalls[c] EXCEPT !.pc = "start"]
                     ELSE fCalls[c]]
    /\ UNCHANGED <<policyVars, coerceVars, runVars, fAuth, fToken, fExchanges>>

FetchStep(c) ==
    \/ NewRequest(c)
    \/ applyAuth(c)
    \/ TokenCheck(c)
    \/ TokenCached(c)
    \/ TokenExchange(c)
    \/ TokenStore(c)
    \/ TokenReturn(c)
    \/ Do(c)

NextFetcher ==
    \/ \E c \in FetchCalls : FetchStep(c)
    \/ FetchFallback
    \/ StartWorkers

SpecFetcher == InitFetcher /\ [][NextFetcher]_vars

(***************************************************************************)
(* SpecPolicy: the three policy queries, each made once, in any order,     *)
(* for every version string and flag combination.                          *)
(***************************************************************************)
InitPolicy ==
    /\ pVersion \in SupportedSet \cup UnknownVersions
    /\ pOpts \in FlagSets
    /\ pReqs = <<>>
    /\ pName = Unset
    /\ pGbfs = Unset
    /\ CoerceIdle
    /\ RunIdle
    /\ FetchIdle

QueryRequirements ==
    /\ pReqs = <<>>
    /\ pReqs' = GetFileRequirements(pVersion, pOpts)
    /\ UNCHANGED <<pVersion, pOpts, pName, pGbfs, coerceVars, runVars, fetchVars>>

QueryStatusName ==
    /\ pName = Unset
    /\ pName' = GetVehicleStatusFileName(pVersion)
    /\ UNCHANGED <<pVersion, pOpts, pReqs, pGbfs, coerceVars, runVars, fetchVars>>

QueryGBFSRequired ==
    /\ pGbfs = Unset
    /\ pGbfs' = IF IsGBFSRequired(pVersion) THEN "required" ELSE "optional"
    /\ UNCHANGED <<pVersion, pOpts, pReqs, pName, coerceVars, runVars, fetchVars>>

NextPolicy == QueryRequirements \/ QueryStatusName \/ QueryGBFSRequired

SpecPolicy == InitPolicy /\ [][NextPolicy]_vars

(***************************************************************************)
(* Claims about the version policy, checked under SpecPolicy.              *)
(***************************************************************************)
RequiredOf(reqs, file) ==
    \E i \in DOMAIN reqs : reqs[i].File = file /\ reqs[i].Required

StationDocs == {"station_information", "station_status"}

VehicleDocs == {"vehicle_status", "free_bike_status", "vehicle_availability"}

\* C7: for each of the eight supported versions and every flag combination,
\* the list GetFileRequirements returns names no document twice and names
\* the same documents whatever the flags; station_information and
\* station_status are in it and required exactly when docked is set; the
\* availability document of the version (vehicle_status from 3.0 on,
\* free_bike_status before) is in it and required exactly when freefloating
\* is set; with both flags clear no station- or vehicle-based document is
\* required; vehicle_types and system_pricing_plans are never required.
C7_RequirementsTable ==
    (pVersion \in SupportedSet /\ pReqs # <<>>) =>
        /\ Len(pReqs) = Cardinality(ReqNames(pReqs))
        /\ \A o \in FlagSets :
              ReqNames(pReqs) = ReqNames(GetFileRequirements(pVersion, o))
        /\ StationDocs \subseteq ReqNames(pReqs)
        /\ \A f \in StationDocs : RequiredOf(pReqs, f) <=> pOpts.Docked
        /\ GetVehicleStatusFileName(pVersion) \in ReqNames(pReqs)
        /\ RequiredOf(pReqs, GetVehicleStatusFileName(pVersion)) <=> pOpts.Freefloating
        /\ (~pOpts.Docked /\ ~pOpts.Freefloating) =>
              \A f \in StationDocs \cup VehicleDocs : ~RequiredOf(pReqs, f)
        /\ ~RequiredOf(pReqs, "vehicle_types")
        /\ ~RequiredOf(pReqs, "system_pricing_plans")

\* A docked-only deployment of version 3.0 whose requirements were queried:
\* the station documents are required and vehicle_status is listed, optional.
C7_Witness ==
    /\ pVersion = "3.0"
    /\ pOpts.Docked /\ ~pOpts.Freefloating
    /\ pReqs # <<>>
    /\ RequiredOf(pReqs, "station_status")
    /\ "vehicle_status" \in ReqNames(pReqs)
    /\ ~RequiredOf(pReqs, "vehicle_status")


\* The newest entry of the table: the last of SupportedVersions.
NewestVersion == SupportedVersions[Len(SupportedVersions)]

\* C15: for every version string that is no key of the table and every
\* flag combination, GetFileRequirements returns the requirement list of
\* the newest known table entry, 3.1-RC2.
C15_UnknownFallsBackToNewest ==
    (pVersion \notin SupportedSet /\ pReqs # <<>>) =>
        pReqs = ConfigFiles(NewestVersion, pOpts)

\* For a version string that is no key of the table the query of the
\* requirements does not fail: it returns the list of the 3.0 entry, which
\* lacks the vehicle_availability document of the newest entry.
C15_UnknownFallsBackTo30 ==
    (pVersion \notin SupportedSet /\ pReqs # <<>>) =>
        /\ pReqs = ConfigFiles("3.0", pOpts)
        /\ ReqNames(ConfigFiles(NewestVersion, pOpts)) \ ReqNames(pReqs)
               = {"vehicle_availability"}

\* The requirements were queried for a version string the table lacks.
C15_UnknownWitness ==
    /\ pVersion = "9.9"
    /\ pReqs # <<>>
    /\ pOpts.Docked

\* The availability documents a requirement list names, under either name.
AvailabilityDocs(reqs) == ReqNames(reqs) \cap {"vehicle_status", "free_bike_status"}

\* C16: for every version string, supported or not, and every flag
\* combination, GetVehicleStatusFileName gives the name of the availability
\* document that the list of GetFileRequirements contains.
C16_StatusNameInRequirements ==
    (pName # Unset /\ pReqs # <<>>) => AvailabilityDocs(pReqs) = {pName}

\* The same for the keys of the table, and for "3.1": free_bike_status
\* before 3.0, vehicle_status from 3.0 on.
C16_StatusNameOfSupported ==
    (pName # Unset /\ pReqs # <<>> /\ pVersion \in SupportedSet \cup {"3.1"}) =>
        /\ AvailabilityDocs(pReqs) = {pName}
        /\ pName = IF pVersion \in {"3.0", "3.1-RC2", "3.1"}
                   THEN "vehicle_status" ELSE "free_bike_status"

\* For every other version string the list is the 3.0 list, which names
\* vehicle_status, and the name given is free_bike_status.
C16_StatusNameOfUnknown ==
    (pName # Unset /\ pReqs # <<>> /\ pVersion \notin SupportedSet \cup {"3.1"}) =>
        /\ AvailabilityDocs(pReqs) = {"vehicle_status"}
        /\ pName = "free_bike_status"

(***************************************************************************)
(* Claims about the coercer and the structural validator, checked under    *)
(* SpecCoerce.                                                             *)
(***************************************************************************)
HasIssueAt(issues, severity, path) ==
    \E k \in DOMAIN issues :
        issues[k].Severity = severity /\ issues[k].InstancePath = path

IssuesAt(issues, path) == {k \in DOMAIN issues : issues[k].InstancePath = path}

LogRecordsFor(log, path, field) ==
    {k \in DOMAIN log : log[k].Path = path /\ log[k].Field = field}

StationFlagFields == {"is_installed", "is_renting", "is_returning"}

\* The station_status document has, at index i - 1, the string "1" in field f.
StationFlagIsStringOne(i, f) ==
    /\ cType = "station_status"
    /\ cIn.valid /\ cIn.data = "object" /\ cIn.key = "stations"
    /\ i \in DOMAIN cIn.items
    /\ Has(cIn.items[i], f)
    /\ cIn.items[i][f] = VStr("1")

\* C4, for one call of Coerce on a Coercer that no other goroutine uses: for a
\* station_status document with the string "1" in is_installed (is_renting,
\* is_returning) of the station at some index: validated as
\* fetched, there is an Error issue at /data/stations/<index>/<field>; coerced
\* with boolean coercion enabled and then validated, the field is the boolean
\* true, no issue is reported at that path, and the log of the call holds
\* exactly one record for that field of that station (so at least one record).
C4_StringOneFlag ==
    \A i \in DOMAIN cIn.items : \A f \in StationFlagFields :
        StationFlagIsStringOne(i, f) =>
            /\ cPhase \in {"strict", "lenient", "again"} =>
                  HasIssueAt(cStrict, SeverityError, Idx("/data/stations/", i - 1, "/" \o f))
            /\ (cPhase \in {"lenient", "again"} /\ cOpts.CoerceBooleans) =>
                  /\ ~cFirst.err
                  /\ cFirst.Data.items[i][f] = VBool(TRUE)
                  /\ IssuesAt(cLenient, Idx("/data/stations/", i - 1, "/" \o f)) = {}
                  /\ Cardinality(LogRecordsFor(cFirst.Log,
                                   Idx("/data/stations/", i - 1, ""), f)) = 1
                  /\ Len(cFirst.Log) >= 1

\* The station at index 1 has is_installed "1"; the document was rejected as
\* fetched and accepted, with a log record, after boolean coercion.
C4_AloneWitness ==
    /\ cPhase = "lenient"
    /\ cOpts.CoerceBooleans
    /\ StationFlagIsStringOne(2, "is_installed")
    /\ HasIssueAt(cStrict, SeverityError, "/data/stations/1/is_installed")
    /\ cFirst.Data.items[2]["is_installed"] = VBool(TRUE)
    /\ IssuesAt(cLenient, "/data/stations/1/is_installed") = {}
    /\ Len(cFirst.Log) = 1

\* C5: Coerce is idempotent: for every parseable document, document type and
\* toggle combination, Coerce applied to the output of a first call returns
\* the same bytes and an empty log.
C5_Idempotent ==
    cPhase = "again" =>
        /\ ~cSecond.err
        /\ cSecond.Data = cFirst.Data
        /\ cSecond.Log = <<>>

\* The second call never fails and never logs: the log half of C5.
C5_SecondLogEmpty ==
    cPhase = "again" => (~cSecond.err /\ cSecond.Log = <<>>)

\* The bytes of the second call differ from those of the first only in a
\* member whose first output is an integer literal that float64 cannot hold.
C5_IdempotentBelow2To53 ==
    (cPhase = "again"
     /\ \A x \in {cFirst.Data.top[k] : k \in DOMAIN cFirst.Data.top}
              \cup {cFirst.Data.obj[k] : k \in DOMAIN cFirst.Data.obj}
              \cup UNION {{cFirst.Data.items[i][k] : k \in DOMAIN cFirst.Data.items[i]}
                          : i \in DOMAIN cFirst.Data.items} :
            ~(x.t = "number" /\ Float64Text(x.v) # x.v))
    => cSecond.Data = cFirst.Data

BooleanFields ==
    {"is_installed", "is_renting", "is_returning", "is_charging_station",
     "is_valet_station", "is_virtual_station", "is_reserved", "is_disabled",
     "ride_through_allowed"}

TimestampFields == {"last_updated", "last_reported", "start_date", "end_date"}

NumberFields ==
    {"ttl", "lat", "lon", "capacity",
     "num_bikes_available", "num_bikes_disabled", "num_docks_available",
     "num_docks_disabled", "num_vehicles_available", "num_vehicles_disabled",
     "current_range_meters", "current_fuel_percent",
     "max_range_meters", "wheel_count", "max_permitted_speed", "rated_power",
     "default_reserve_time", "cargo_volume_capacity", "cargo_load_capacity",
     "maximum_speed_kph", "station_parking"}

\* A member in its canonical type: a boolean a JSON boolean, a count, ttl or
\* coordinate a JSON number, a timestamp integer epoch seconds or an RFC3339
\* string, and never null.
CanonicalValue(k, x) ==
    /\ x.t # "nil"
    /\ k \in BooleanFields => x.t = "bool"
    /\ k \in NumberFields => x.t = "number"
    /\ k \in TimestampFields =>
          \/ x.t = "number" /\ IsIntegral(x.v)
          \/ x.t = "string" /\ IsRFC3339(x.v)

CanonicalObject(o) == \A k \in DOMAIN o : CanonicalValue(k, o[k])

CanonicalDoc(d) ==
    /\ d.valid
    /\ d.data # "null"
    /\ CanonicalObject(d.top)
    /\ CanonicalObject(d.obj)
    /\ \A i \in DOMAIN d.items : CanonicalObject(d.items[i])

\* C6, for one call of Coerce on a Coercer that no other goroutine uses: for
\* every document type and toggle combination, Coerce of a document whose
\* members are all in their canonical types returns an empty log.
C6_CanonicalEmptyLog ==
    (cPhase \in {"lenient", "again"} /\ CanonicalDoc(cIn)) =>
        (~cFirst.err /\ cFirst.Log = <<>>)

\* A vehicle_status document with a numeric latitude, coerced with every
\* toggle enabled.
C6_AloneWitness ==
    /\ cPhase = "lenient"
    /\ cType = "vehicle_status"
    /\ cOpts = DefaultLenientOptions
    /\ CanonicalDoc(cIn)
    /\ Len(cIn.items) = 1 /\ Has(cIn.items[1], "lat")
    /\ cFirst.Log = <<>>

(***************************************************************************)
(* Claims about a run of Validate, checked under SpecValidate.             *)
(***************************************************************************)
\* Validate returned after it obtained and decoded the manifest.
ReturnedWithManifest == vPc = "returned" /\ ~vGbfs.err

\* The version the run validates against and its deployment flags.
EffectiveVersion == ValidatedVersion(vOpts.Version, vGbfs.feed)

EffectiveFlags == [Docked |-> vOpts.Docked, Freefloating |-> vOpts.Freefloating]

EffectiveRequirements == GetFileRequirements(EffectiveVersion, EffectiveFlags)

\* The documents the feed list of the manifest names.
ListedNames == {vGbfs.feed.Feeds[i].Name : i \in DOMAIN vGbfs.feed.Feeds}

\* The server answered the request for the document with 200 and a body.
Served(name) ==
    /\ name \in DOMAIN vResp
    /\ vResp[name].kind = "response"
    /\ vResp[name].status = 200

\* The entries of the report for a document.
EntriesOf(name) ==
    {i \in DOMAIN vReport.Files : vReport.Files[i].File = name \o ".json"}

HasErrorIssue(entry) ==
    \E k \in DOMAIN entry.Errors : entry.Errors[k].Severity = SeverityError

\* C1: in a run that obtained the manifest, every document the version
\* policy marks required for the effective version and flags, that the
\* manifest does not list or whose fetch returned not-found or a failure,
\* has exactly one entry in the report, with required=true, exists=false,
\* hasErrors=true and an Error issue.
C1_MissingRequiredReported ==
    ReturnedWithManifest =>
        \A r \in DOMAIN EffectiveRequirements :
            LET req == EffectiveRequirements[r]
            IN  (req.Required /\ (req.File \notin ListedNames \/ ~Served(req.File))) =>
                    /\ Cardinality(EntriesOf(req.File)) = 1
                    /\ \A i \in EntriesOf(req.File) :
                          /\ vReport.Files[i].Required
                          /\ ~vReport.Files[i].Exists
                          /\ vReport.Files[i].HasErrors
                          /\ HasErrorIssue(vReport.Files[i])

\* A docked system whose manifest lists system_information only: the report
\* has entries for station_information, which was never listed, and for
\* system_information, whose fetch failed; both required, absent, in error.
C1_Witness ==
    /\ ReturnedWithManifest
    /\ vOpts.Docked
    /\ ListedNames = {"system_information"}
    /\ ~Served("system_information")
    /\ \E i \in EntriesOf("station_information") :
          /\ vReport.Files[i].Required /\ ~vReport.Files[i].Exists
          /\ HasErrorIssue(vReport.Files[i])
    /\ \E i \in EntriesOf("system_information") :
          /\ vReport.Files[i].Required /\ ~vReport.Files[i].Exists
          /\ HasErrorIssue(vReport.Files[i])

\* The entry of the report for the availability document of the version.
AvailabilityName == GetVehicleStatusFileName(EffectiveVersion)

\* The bytes served for a document decode into the typed struct of its kind.
Decodes(name) ==
    CASE name \in {"vehicle_status", "free_bike_status"} ->
             UnmarshalOK(vResp[name].body, {"vehicles", "bikes"}, VehicleKind)
      [] name = "vehicle_types" ->
             UnmarshalOK(vResp[name].body, {"vehicle_types"}, VehicleTypeKind)
      [] name = "system_pricing_plans" ->
             UnmarshalOK(vResp[name].body, {"plans"}, PricingPlanKind)
      [] name = "station_information" ->
             UnmarshalOK(vResp[name].body, {"stations"}, StationKind)
      [] name = "station_status" ->
             UnmarshalOK(vResp[name].body, {"stations"}, StationStatusEntryKind)
      [] OTHER -> vResp[name].body.valid

\* The objects of the collection of a served document.
ServedItems(name) == vResp[name].body.items

\* The non-empty values the objects of a served document hold in a member.
ServedIds(name, field) ==
    {StringOf(ServedItems(name)[i], field) : i \in DOMAIN ServedItems(name)} \ {""}

\* The vehicle at index i - 1 of the availability document names a vehicle
\* type that vehicle_types.json does not list.
DanglingVehicleType(i) ==
    /\ i \in DOMAIN ServedItems(AvailabilityName)
    /\ StringOf(ServedItems(AvailabilityName)[i], "vehicle_type_id") # ""
    /\ StringOf(ServedItems(AvailabilityName)[i], "vehicle_type_id")
           \notin ServedIds("vehicle_types", "vehicle_type_id")

\* The Error issues of an entry at a path.
ErrorIssuesAt(entry, path) ==
    {k \in DOMAIN entry.Errors :
        entry.Errors[k].Severity = SeverityError /\ entry.Errors[k].InstancePath = path}

BothVehicleDocumentsParse ==
    /\ ReturnedWithManifest
    /\ Served(AvailabilityName) /\ Decodes(AvailabilityName)
    /\ Served("vehicle_types") /\ Decodes("vehicle_types")

\* C2: when the availability document of the version and vehicle_types.json
\* were both fetched and parse, every vehicle whose non-empty vehicle_type_id
\* is not listed in vehicle_types.json, whatever that document lists, has
\* exactly one Error issue in the entry of the availability document, at the
\* path of its index, and the entry and the summary have hasErrors=true.
C2_DanglingTypeReported ==
    BothVehicleDocumentsParse =>
        \A i \in DOMAIN ServedItems(AvailabilityName) :
            DanglingVehicleType(i) =>
                \A e \in EntriesOf(AvailabilityName) :
                    /\ Cardinality(ErrorIssuesAt(vReport.Files[e],
                           Idx("/data/vehicles/", i - 1, "/vehicle_type_id"))) = 1
                    /\ vReport.Files[e].HasErrors
                    /\ vReport.Summary.HasErrors

\* The same, for a vehicle_types.json that lists at least one vehicle type.
C2_ReportedWhenTypesListed ==
    (BothVehicleDocumentsParse /\ ServedItems("vehicle_types") # <<>>) =>
        \A i \in DOMAIN ServedItems(AvailabilityName) :
            DanglingVehicleType(i) =>
                \A e \in EntriesOf(AvailabilityName) :
                    /\ Cardinality(ErrorIssuesAt(vReport.Files[e],
                           Idx("/data/vehicles/", i - 1, "/vehicle_type_id"))) = 1
                    /\ vReport.Files[e].HasErrors
                    /\ vReport.Summary.HasErrors

\* A run in which vehicle_types.json lists a type and the second vehicle
\* names another: the reference is reported at index 1.
C2_ReportedWitness ==
    /\ BothVehicleDocumentsParse
    /\ ServedItems("vehicle_types") # <<>>
    /\ DanglingVehicleType(2)
    /\ \E e \in EntriesOf(AvailabilityName) :
          ErrorIssuesAt(vReport.Files[e], "/data/vehicles/1/vehicle_type_id") # {}

\* The manifest has no structural flaw.
SoundManifest ==
    /\ vGbfs.feed.TTL >= 0
    /\ vGbfs.feed.Feeds # <<>>
    /\ \A i \in DOMAIN vGbfs.feed.Feeds :
          vGbfs.feed.Feeds[i].Name # "" /\ vGbfs.feed.Feeds[i].URL # ""

EveryItem(d, P(_)) == \A i \in DOMAIN d.items : P(d.items[i])

\* The structural rules of a document of the given type: last_updated, ttl
\* and data present, the collection and the required members present, the
\* boolean members boolean.
SoundDocument(name, d) ==
    /\ d.valid
    /\ Has(d.top, "last_updated") /\ Has(d.top, "ttl")
    /\ d.data = "object"
    /\ name = "system_information" =>
          Has(d.obj, "system_id") /\ Has(d.obj, "timezone") /\ Has(d.obj, "name")
    /\ name = "station_information" =>
          /\ d.key = "stations"
          /\ EveryItem(d, LAMBDA s : Has(s, "station_id") /\ Has(s, "lat") /\ Has(s, "lon"))
    /\ name = "station_status" =>
          /\ d.key = "stations"
          /\ EveryItem(d, LAMBDA s :
                /\ Has(s, "station_id")
                /\ \A f \in {"is_installed", "is_renting", "is_returning"} :
                      Has(s, f) => s[f].t \in {"bool"})
    /\ name \in {"vehicle_status", "free_bike_status"} =>
          /\ d.key \in {"vehicles", "bikes"}
          /\ EveryItem(d, LAMBDA v : Has(v, "vehicle_id") \/ Has(v, "bike_id"))
    /\ name = "vehicle_types" =>
          /\ d.key = "vehicle_types"
          /\ EveryItem(d, LAMBDA t :
                /\ Has(t, "vehicle_type_id") /\ Has(t, "form_factor")
                /\ Has(t, "propulsion_type")
                /\ isMotorized(StringOf(t, "propulsion_type")) =>
                      Has(t, "max_range_meters"))

\* Every identifier a served document holds in the member names an object of
\* the target document, which was served too.
Resolves(name, field, target, idField) ==
    (Served(name) /\ ServedIds(name, field) # {}) =>
        /\ Served(target)
        /\ ServedIds(name, field) \subseteq ServedIds(target, idField)

EveryReferenceResolves ==
    /\ Resolves(AvailabilityName, "vehicle_type_id", "vehicle_types", "vehicle_type_id")
    /\ Resolves(AvailabilityName, "pricing_plan_id", "system_pricing_plans", "plan_id")
    /\ Resolves("vehicle_types", "default_pricing_plan_id", "system_pricing_plans", "plan_id")
    /\ Resolves("station_status", "station_id", "station_information", "station_id")

\* The documents the manifest lists that the table of the version names.
ListedInTable == ListedNames \cap ReqNames(EffectiveRequirements)

\* The run of a sound feed: the manifest was fetched and is sound, every
\* document it lists was fetched and is sound, every required document is
\* listed, and every reference resolves.
SoundFeed ==
    /\ ReturnedWithManifest
    /\ SoundManifest
    /\ \A n \in ListedInTable : Served(n) /\ SoundDocument(n, vResp[n].body)
    /\ \A r \in DOMAIN EffectiveRequirements :
          EffectiveRequirements[r].Required =>
              EffectiveRequirements[r].File \in ListedNames
    /\ EveryReferenceResolves

RECURSIVE SumOver(_, _)
SumOver(counts, k) ==
    IF k > Len(counts) THEN 0 ELSE counts[k] + SumOver(counts, k + 1)

\* The errorsCount fields of the entries of the report, in order.
EntryCounts == [i \in DOMAIN vReport.Files |-> vReport.Files[i].ErrorsCount]

\* The lengths of the issue lists of the entries of the report, in order.
EntryIssues == [i \in DOMAIN vReport.Files |-> Len(vReport.Files[i].Errors)]

\* C9: in every report Validate returns, summary.hasErrors is true exactly
\* when the manifest entry or a document entry has hasErrors=true, and
\* summary.errorsCount is the sum of errorsCount over every entry of the
\* file list, the manifest entry included.
C9_SummaryMatchesEntries ==
    vPc = "returned" =>
        /\ vReport.Summary.HasErrors <=>
              \E i \in DOMAIN vReport.Files : vReport.Files[i].HasErrors
        /\ vReport.Summary.ErrorsCount = SumOver(EntryCounts, 1)

\* What the code keeps of C9: when the manifest was obtained, the flag is the
\* disjunction over every entry, and the count is the sum over the document
\* entries, the manifest entry left out.
C9_DocumentsOnlyCount ==
    ReturnedWithManifest =>
        /\ vReport.Summary.HasErrors <=>
              \E i \in DOMAIN vReport.Files : vReport.Files[i].HasErrors
        /\ vReport.Summary.ErrorsCount =
              SumOver(EntryCounts, 1) - vReport.Files[1].ErrorsCount

\* When the manifest was not obtained, the summary says no more than that
\* the version is unimplemented, whatever the manifest entry holds.
C9_EarlyReturnSummary ==
    (vPc = "returned" /\ vGbfs.err) =>
        /\ ~vReport.Summary.HasErrors
        /\ vReport.Summary.ErrorsCount = 0
        /\ vReport.Summary.VersionUnimplemented
        /\ Len(vReport.Files) = 1

\* C10: in every report Validate returns, every issue of every entry, of
\* any severity and wherever it was added, is counted in the errorsCount of
\* its entry and in summary.errorsCount, and summary.hasErrors is true
\* whenever an issue list is non-empty.
C10_EveryIssueCounted ==
    vPc = "returned" =>
        /\ \A i \in DOMAIN vReport.Files :
              vReport.Files[i].ErrorsCount = Len(vReport.Files[i].Errors)
        /\ vReport.Summary.ErrorsCount = SumOver(EntryIssues, 1)
        /\ (\E i \in DOMAIN vReport.Files : vReport.Files[i].Errors # <<>>) =>
              vReport.Summary.HasErrors

\* The part of C10 about the entries alone: violated by the warning that
\* validateVehicleTypeReferences appends without counting it.
C10_EntryCountsItsIssues ==
    vPc = "returned" =>
        \A i \in DOMAIN vReport.Files :
            vReport.Files[i].ErrorsCount = Len(vReport.Files[i].Errors)

\* What the code keeps of C10: every issue of Error severity and every issue
\* of structural validation is counted in its entry.
C10_ErrorsAreCounted ==
    vPc = "returned" =>
        \A i \in DOMAIN vReport.Files :
            LET entry == vReport.Files[i]
                uncounted == {k \in DOMAIN entry.Errors :
                                 /\ entry.Errors[k].Severity = SeverityWarning
                                 /\ entry.Errors[k].Message =
                                       "current_range_meters is recommended for motorized vehicles"}
            IN  entry.ErrorsCount = Len(entry.Errors) - Cardinality(uncounted)

(***************************************************************************)
(* Claims about the workers of a run, checked under SpecWorkers.           *)
(***************************************************************************)
\* The entries of the report of the run for a document.
WorkerEntriesOf(name) ==
    {i \in DOMAIN wReport.Files : wReport.Files[i].File = name \o ".json"}

\* C8 (safety half): when the context is cancelled while fetches are in
\* flight and Validate has returned, every document whose fetch was in flight
\* then, required or optional, has an entry with exists=false that carries
\* an issue recording that it could not be fetched.
C8_InFlightTagged ==
    (wPhase = "returned" /\ wCtx.cancelled) =>
        \A n \in wCtx.inFlight :
            /\ WorkerEntriesOf(n) # {}
            /\ \A e \in WorkerEntriesOf(n) :
                  /\ ~wReport.Files[e].Exists
                  /\ wReport.Files[e].Errors # <<>>

\* What the code keeps of it: an entry for every document in flight, with
\* exists=false, tagged when the document is required.
C8_RequiredInFlightTagged ==
    (wPhase = "returned" /\ wCtx.cancelled) =>
        \A n \in wCtx.inFlight :
            /\ Cardinality(WorkerEntriesOf(n)) = 1
            /\ \A e \in WorkerEntriesOf(n) :
                  /\ ~wReport.Files[e].Exists
                  /\ RequirementOf(n).Required =>
                        /\ wReport.Files[e].HasErrors
                        /\ HasErrorIssue(wReport.Files[e])

\* A worker that has published keeps its result whatever happens later,
\* cancellation included: no step changes an entry of the results map.
C8_PublishedResultsKept ==
    [][\A n \in DOMAIN wResults : n \in DOMAIN wResults' /\ wResults'[n] = wResults[n]]_vars

\* A worker that completed before the cancellation, in a run without a
\* Coercer, has the result of its response.
C8_CompletedBeforeExpiry ==
    (wCtx.cancelled /\ ~wIn.LenientMode) =>
        \A n \in DOMAIN wWorkers \ wCtx.inFlight :
            wWorkers[n].pc = "done" =>
                wResults[n] =
                    (IF FetchMissed(Fetch(wWorkers[n].resp, FALSE))
                     THEN fetchMissedResult(RequirementOf(n), wIn.FeedURLs[n])
                     ELSE fetchedResult(RequirementOf(n), wIn.FeedURLs[n],
                                        wWorkers[n].resp.body, FALSE, NoCoerce, 0))


\* A run cancelled with the fetch of a required document in flight: it
\* returned, and the entry of the document is tagged.
C8_RequiredWitness ==
    /\ wPhase = "returned"
    /\ wCtx.cancelled
    /\ "system_information" \in wCtx.inFlight
    /\ \E e \in WorkerEntriesOf("system_information") :
          ~wReport.Files[e].Exists /\ HasErrorIssue(wReport.Files[e])

\* The station_status document an entry holds has the string "1" in
\* is_installed of the station at index i - 1.
EntryFlagIsStringOne(entry, i) ==
    /\ entry.File = "station_status.json"
    /\ entry.Exists
    /\ i \in DOMAIN entry.RawData.items
    /\ Has(entry.RawData.items[i], "is_installed")
    /\ entry.RawData.items[i]["is_installed"] = VStr("1")

\* C4 (lenient half, in a run): in lenient mode, the entry of a
\* station_status document with the string "1" in is_installed of a station
\* has no issue at the path of that member and a coercionCount of at least
\* 1: the log of its call of Coerce holds the record of the rewrite.
C4_RewriteCounted ==
    (wPhase = "returned" /\ wIn.LenientMode) =>
        \A e \in DOMAIN wReport.Files :
            \A i \in DOMAIN wReport.Files[e].RawData.items :
                EntryFlagIsStringOne(wReport.Files[e], i) =>
                    /\ IssuesAt(wReport.Files[e].Errors,
                                Idx("/data/stations/", i - 1, "/is_installed")) = {}
                    /\ wReport.Files[e].CoercionCount >= 1

\* The same, for the runs in which no other worker calls Coerce.
C4_RewriteCountedAlone ==
    (wPhase = "returned" /\ wIn.LenientMode
     /\ \A n \in DOMAIN wWorkers \ {"station_status"} :
           FetchMissed(Fetch(wWorkers[n].resp, FALSE))) =>
        \A e \in DOMAIN wReport.Files :
            \A i \in DOMAIN wReport.Files[e].RawData.items :
                EntryFlagIsStringOne(wReport.Files[e], i) =>
                    /\ IssuesAt(wReport.Files[e].Errors,
                                Idx("/data/stations/", i - 1, "/is_installed")) = {}
                    /\ wReport.Files[e].CoercionCount = 1

\* C6 (in a run): in lenient mode, the log Coerce returns for a document
\* whose members are all in their canonical types is empty: the
\* coercionCount of its entry is 0.
C6_CanonicalCountsNothing ==
    (wPhase = "returned" /\ wIn.LenientMode) =>
        \A e \in DOMAIN wReport.Files :
            (wReport.Files[e].Exists /\ CanonicalDoc(wReport.Files[e].RawData)) =>
                wReport.Files[e].CoercionCount = 0


\* The records Coerce appends for the document a worker fetched.
OwnCoercions(n) == Coerce(wResults[n].RawData, n, DefaultLenientOptions).Log

\* The workers that call Coerce: those whose document was fetched.
CoerceCallers ==
    {n \in DOMAIN wWorkers : ~FetchMissed(Fetch(wWorkers[n].resp, FALSE))}

\* C22: in lenient mode, under every interleaving of the workers, the
\* coercionCount of each document equals the number of coercions applied to
\* that document alone: the workers share no mutable coercion state.
C22_OwnCoercionsCounted ==
    (wPhase = "returned" /\ wIn.LenientMode) =>
        \A n \in DOMAIN wResults :
            wResults[n].Exists =>
                wResults[n].CoercionCount = Len(OwnCoercions(n))

\* The same for the runs in which at most one worker calls Coerce.
C22_OwnCoercionsCountedAlone ==
    (wPhase = "returned" /\ wIn.LenientMode /\ Cardinality(CoerceCallers) <= 1) =>
        \A n \in DOMAIN wResults :
            wResults[n].Exists =>
                wResults[n].CoercionCount = Len(OwnCoercions(n))

\* The number of records the callers of S append together.
RECURSIVE RecordsOf(_)
RecordsOf(S) ==
    IF S = {} THEN 0
    ELSE LET m == CHOOSE x \in S : TRUE
         IN  Len(Coerce(wWorkers[m].resp.body, m, DefaultLenientOptions).Log)
             + RecordsOf(S \ {m})

\* The log a worker reads holds records of the workers of the run only, so
\* its count is at most the number of coercions of all documents together;
\* a strict run counts nothing.
C22_CountWithinRunTotal ==
    wPhase = "returned" =>
        \A n \in DOMAIN wResults :
            /\ wResults[n].CoercionCount <= RecordsOf(CoerceCallers)
            /\ ~wIn.LenientMode => wResults[n].CoercionCount = 0

\* Two workers called Coerce and the count of station_status, whose
\* is_installed "1" was rewritten, is 0.
C22_LostRecordWitness ==
    /\ wPhase = "returned"
    /\ wIn.LenientMode
    /\ Cardinality(CoerceCallers) = 2
    /\ "station_status" \in DOMAIN wResults
    /\ wResults["station_status"].Exists
    /\ Len(OwnCoercions("station_status")) = 1
    /\ wResults["station_status"].CoercionCount = 0

(***************************************************************************)
(* Claims about absent documents and failed fetches, under SpecValidate.   *)
(***************************************************************************)
\* An absent entry is in error exactly when it is marked required.
AbsentIffRequired(entry) ==
    ~entry.Exists => ((HasErrorIssue(entry) /\ entry.HasErrors) <=> entry.Required)

\* C11: in every report Validate returns, every entry with exists=false,
\* the manifest entry included and for any version override, carries an
\* Error issue and hasErrors=true if and only if its required flag is true.
C11_AbsentIffRequired ==
    vPc = "returned" =>
        \A i \in DOMAIN vReport.Files : AbsentIffRequired(vReport.Files[i])

\* The same for the entries of the documents, the manifest entry left out.
C11_DocumentsAbsentIffRequired ==
    vPc = "returned" =>
        \A i \in DOMAIN vReport.Files :
            vReport.Files[i].File # "gbfs.json" => AbsentIffRequired(vReport.Files[i])

\* The manifest entry is always marked required; absent, it is in error
\* exactly when the version option makes the manifest required.
C11_ManifestAbsentIffPolicy ==
    vPc = "returned" =>
        \A i \in DOMAIN vReport.Files :
            (vReport.Files[i].File = "gbfs.json" /\ ~vReport.Files[i].Exists) =>
                /\ vReport.Files[i].Required
                /\ (HasErrorIssue(vReport.Files[i]) /\ vReport.Files[i].HasErrors)
                       <=> IsGBFSRequired(vOpts.Version)

\* The fetch of a listed document of the run ended in a failure.
FetchFailed(name) ==
    /\ name \in DOMAIN vResp
    /\ Fetch(vResp[name], FALSE).Error # ""

\* The requirement of the run for a document.
RequirementFor(name) ==
    EffectiveRequirements[CHOOSE r \in DOMAIN EffectiveRequirements :
                              EffectiveRequirements[r].File = name]

\* C12: for every non-manifest document whose fetch ends in a failure,
\* required or optional, the entry of the document in the report carries
\* exactly one issue, which records the failure.
C12_FailedFetchRecorded ==
    ReturnedWithManifest =>
        \A name \in DOMAIN vResp :
            FetchFailed(name) =>
                /\ Cardinality(EntriesOf(name)) = 1
                /\ \A i \in EntriesOf(name) :
                      /\ ~vReport.Files[i].Exists
                      /\ Len(vReport.Files[i].Errors) = 1
                      /\ vReport.Files[i].Errors[1].Severity = SeverityError

\* A required document whose fetch failed has one entry, absent, with
\* exactly one Error issue, the one its worker recorded.
C12_RequiredFailedFetchRecorded ==
    ReturnedWithManifest =>
        \A name \in DOMAIN vResp :
            (FetchFailed(name) /\ RequirementFor(name).Required) =>
                /\ Cardinality(EntriesOf(name)) = 1
                /\ \A i \in EntriesOf(name) :
                      /\ ~vReport.Files[i].Exists
                      /\ vReport.Files[i].Errors = vFileResults[name].Errors
                      /\ Len(vReport.Files[i].Errors) = 1
                      /\ vReport.Files[i].Errors[1].Severity = SeverityError

\* The worker of an optional document whose fetch failed records nothing.
C12_OptionalFailedFetchSilent ==
    ReturnedWithManifest =>
        \A name \in DOMAIN vResp :
            (FetchFailed(name) /\ ~RequirementFor(name).Required) =>
                /\ ~vFileResults[name].Exists
                /\ ~vFileResults[name].HasErrors
                /\ vFileResults[name].Errors = <<>>

\* A required document answered with a server error.
C12_RequiredWitness ==
    /\ ReturnedWithManifest
    /\ \E name \in DOMAIN vResp :
          /\ FetchFailed(name)
          /\ RequirementFor(name).Required
          /\ \E i \in EntriesOf(name) : Len(vReport.Files[i].Errors) = 1

\* The outcome of the last request for the manifest that Validate made.
LastManifestFetch == Fetch(vManifestReqs[Len(vManifestReqs)], FALSE)

\* The manifest could not be obtained (every request made for it ended in a
\* failure or in not-found), or its bytes do not decode.
ManifestUnreachable == FetchMissed(LastManifestFetch)

ManifestUnparsable == ~FetchMissed(LastManifestFetch) /\ ~LastManifestFetch.Body.parses

\* C13: when the manifest cannot be obtained or cannot be parsed, the
\* report Validate returns holds exactly one entry, the manifest (absent
\* when it was unreachable), summary.versionUnimplemented is true and no
\* document is fetched; and every run returns a report.
C13_ManifestlessReport ==
    vPc = "returned" =>
        /\ Len(vReport.Files) >= 1
        /\ vReport.Files[1].File = "gbfs.json"
        /\ (ManifestUnreachable \/ ManifestUnparsable) =>
              /\ Len(vReport.Files) = 1
              /\ vReport.Summary.VersionUnimplemented
              /\ vReport.Files[1].Exists = ~ManifestUnreachable
              /\ vResp = <<>>
              /\ vFileResults = <<>>
        /\ \A k \in DOMAIN vManifestReqs :
              k < Len(vManifestReqs) => FetchMissed(Fetch(vManifestReqs[k], FALSE))

\* The primary URL failed and the fallback URL answered not-found.
C13_UnreachableWitness ==
    /\ vPc = "returned"
    /\ Len(vManifestReqs) = 2
    /\ ManifestUnreachable
    /\ Len(vReport.Files) = 1
    /\ vReport.Summary.VersionUnimplemented

\* The manifest was served and its bytes do not decode.
C13_UnparsableWitness ==
    /\ vPc = "returned"
    /\ ManifestUnparsable
    /\ vReport.Files[1].Exists
    /\ vReport.Files[1].HasErrors
    /\ Len(vReport.Files) = 1

(***************************************************************************)
(* Claims about Fetch and the OAuth token, checked under SpecFetcher.      *)
(***************************************************************************)
\* The three kinds of outcome of Fetch.
IsFound(r) == r.Exists /\ r.Error = "" /\ r.Body # NilData

IsNotFound(r) == ~r.Exists /\ r.Error = ""

IsFailed(r) == ~r.Exists /\ r.Error # ""

ExactlyOneKind(r) ==
    /\ IsFound(r) \/ IsNotFound(r) \/ IsFailed(r)
    /\ ~(IsFound(r) /\ IsNotFound(r))
    /\ ~(IsFound(r) /\ IsFailed(r))
    /\ ~(IsNotFound(r) /\ IsFailed(r))
    /\ ~(r.Exists /\ r.Error # "")

\* The calls of Fetch that returned.
DoneCalls == {c \in FetchCalls : fCalls[c].pc = "done"}

\* The request of the call was answered with a response whose body was read.
Answered(c) == fCalls[c].resp.kind = "response"

\* C14: every outcome of Fetch is exactly one of found, not-found and
\* failed: found when the response has a success (2xx) status and its body
\* is read, not-found when the status is 404, failed in every other case;
\* exists=true and a failure never occur together.
C14_OutcomeKinds ==
    \A c \in DoneCalls :
        LET r == fCalls[c].result
            status == fCalls[c].resp.status
        IN  /\ ExactlyOneKind(r)
            /\ IsFound(r) <=> (Answered(c) /\ status >= 200 /\ status < 300)
            /\ IsNotFound(r) <=> (Answered(c) /\ status = 404)

\* Every outcome is of exactly one kind.
C14_ExactlyOneKind == \A c \in DoneCalls : ExactlyOneKind(fCalls[c].result)

\* An outcome is found exactly when the status is 200 and the body is read,
\* not-found exactly when the status is 404, and failed otherwise: when the
\* request was not created or not sent, when no response came, when the
\* body could not be read, and for every other status.
C14_FoundIffStatus200 ==
    \A c \in DoneCalls :
        LET r == fCalls[c].result
            status == fCalls[c].resp.status
        IN  /\ IsFound(r) <=> (Answered(c) /\ status = 200)
            /\ IsFound(r) => r.Body = fCalls[c].resp.body
            /\ IsNotFound(r) <=> (Answered(c) /\ status = 404)
            /\ IsFailed(r) <=> ~(Answered(c) /\ status \in {200, 404})

\* Calls of each kind have returned: one found, one not-found, one failed.
C14_KindsWitness ==
    /\ \E c \in DoneCalls : IsFound(fCalls[c].result)
    /\ \E c \in DoneCalls : IsNotFound(fCalls[c].result)
    /\ \E c \in DoneCalls : IsFailed(fCalls[c].result) /\ fCalls[c].resp = ReadError

\* The run authenticates with the client-credentials strategy.
UsesOAuth == fAuth = AuthOAuthClientCredentials

\* The request of the call was handed to the HTTP client.
Sent(c) == fCalls[c].pc = "done" /\ fCalls[c].resp # NoResponse

\* The exchanges a call made.
ExchangesBy(c) == {k \in DOMAIN fExchanges : fExchanges[k].by = c}

\* C19: with the client-credentials strategy at most one token-endpoint
\* exchange is performed per run, for every interleaving of the workers
\* that call Fetch, and every fetch after the exchange sends the cached
\* token.
C19_AtMostOneExchange ==
    UsesOAuth =>
        /\ Len(fExchanges) <= 1
        /\ \A c \in FetchCalls :
              (Sent(c) /\ fExchanges # <<>>) =>
                  fCalls[c].header = Bearer(fExchanges[1].answer.token)

\* When the first exchange of the run, made for the manifest, yields a
\* token, it is the only one and every request carries that token.
C19_OneExchangeWhenFirstYieldsToken ==
    (UsesOAuth /\ fExchanges # <<>> /\ ~ExchangeErrs(fExchanges[1].answer)
       /\ fExchanges[1].answer.token # "") =>
        /\ Len(fExchanges) = 1
        /\ \A c \in FetchCalls :
              Sent(c) => fCalls[c].header = Bearer(fExchanges[1].answer.token)

\* No call makes more than one exchange, and a call makes one only with the
\* client-credentials strategy.
C19_OneExchangePerCall ==
    /\ \A c \in FetchCalls : Cardinality(ExchangesBy(c)) <= 1
    /\ ~UsesOAuth => fExchanges = <<>>

\* Two workers each obtained a token: the second had read f.token before
\* the first stored its token.
C19_WorkersBothExchange ==
    /\ UsesOAuth
    /\ \E v, w \in FetchWorkers :
          /\ v # w
          /\ \E i \in ExchangesBy(v), j \in ExchangesBy(w) :
                /\ fExchanges[i].answer.token # ""
                /\ fExchanges[j].answer.token # ""

\* The manifest call obtained a token and a worker then sent it from the
\* cache, with no exchange of its own.
C19_CachedWitness ==
    /\ UsesOAuth
    /\ Len(fExchanges) = 1
    /\ fExchanges[1].answer.token = "A"
    /\ \E w \in FetchWorkers : Sent(w) /\ fCalls[w].header = Bearer("A")

\* The token exchange failed: no response, a non-success status, or a
\* response that carries no access token.
ExchangeFailed(answer) ==
    \/ answer.kind = "transport_error"
    \/ answer.status # 200
    \/ ~answer.decodes
    \/ answer.token = ""

\* C20: with the client-credentials strategy, once a token exchange has
\* failed, the fetch that made it and every later fetch of the run return a
\* failure, and no request for a document is sent with an empty or missing
\* bearer token.
C20_FailedExchangeSticks ==
    UsesOAuth =>
        /\ \A c \in FetchCalls : Sent(c) => fCalls[c].header \notin {NoHeader, Bearer("")}
        /\ \A k \in DOMAIN fExchanges :
              ExchangeFailed(fExchanges[k].answer) =>
                  /\ fCalls[fExchanges[k].by].pc = "done" =>
                        IsFailed(fCalls[fExchanges[k].by].result)
                  /\ fExchanges[k].by = "gbfs" =>
                        \A c \in DoneCalls : IsFailed(fCalls[c].result)

\* An exchange that got no response, or a body that does not decode, makes
\* its fetch return the authentication failure without sending the request.
C20_ExchangeErrorFailsItsFetch ==
    \A k \in DOMAIN fExchanges :
        ExchangeErrs(fExchanges[k].answer) =>
            /\ fCalls[fExchanges[k].by].pc = "done"
            /\ fCalls[fExchanges[k].by].result =
                   FetchResult(FALSE, "failed to apply authentication", 0, NilData)
            /\ ~Sent(fExchanges[k].by)

\* A request is sent without a bearer token exactly when the strategy is
\* none, and with the token the caller read from f.token otherwise.
C20_HeaderFollowsStrategy ==
    \A c \in FetchCalls :
        Sent(c) =>
            /\ fCalls[c].header = NoHeader <=> fAuth = AuthNone
            /\ fAuth = AuthBearerToken => fCalls[c].header = Bearer(ConfiguredToken)
            /\ UsesOAuth =>
                  \/ fCalls[c].header = Bearer("")
                  \/ \E k \in DOMAIN fExchanges :
                        fCalls[c].header = Bearer(fExchanges[k].answer.token)

\* The token endpoint answered 401 with a body that decodes: the manifest
\* was requested with an empty bearer token and served.
C20_EmptyBearerSent ==
    /\ UsesOAuth
    /\ fExchanges # <<>>
    /\ fExchanges[1].answer.status = 401
    /\ Sent("gbfs")
    /\ fCalls["gbfs"].header = Bearer("")
    /\ IsFound(fCalls["gbfs"].result)

\* The exchange of the manifest call failed and the exchange of the
\* fallback call yielded a token: the fallback fetch was served.
C20_ExchangedAgainAfterFailure ==
    /\ UsesOAuth
    /\ Len(fExchanges) >= 2
    /\ ExchangeErrs(fExchanges[1].answer)
    /\ fExchanges[2].by = "gbfs_alt"
    /\ IsFound(fCalls["gbfs_alt"].result)

(***************************************************************************)
(* Claims about the cross-reference passes, checked under SpecValidate.    *)
(***************************************************************************)
\* The availability document the workers fetched: the one the requirement
\* list of the run names, when its request was answered with a body.
FetchedAvailability ==
    {a \in AvailabilityDocs(EffectiveRequirements) :
        a \in DOMAIN vFileResults /\ vFileResults[a].Exists}

\* A vehicle of the fetched availability document carries the reference.
CarriesReference(refField) ==
    \E a \in FetchedAvailability :
        /\ UnmarshalOK(vFileResults[a].RawData, {"vehicles", "bikes"}, VehicleKind)
        /\ \E i \in DOMAIN GetVehicles(vFileResults[a].RawData) :
              StringOf(GetVehicles(vFileResults[a].RawData)[i], refField) # ""

\* The workers fetched the document.
WasFetched(target) == target \in DOMAIN vFileResults /\ vFileResults[target].Exists

\* The issue lists and count of the entry before the cross-reference passes.
ErrorsBefore(target) ==
    IF target \in DOMAIN vFileResults THEN vFileResults[target].Errors ELSE <<>>

CountBefore(target) ==
    IF target \in DOMAIN vFileResults THEN vFileResults[target].ErrorsCount ELSE 0

\* The issue of a conditional requirement.
IsConditionalIssue(e, target, refField) ==
    \E a \in {"vehicle_status", "free_bike_status"} :
        e = Issue(SeverityError,
                  target \o ".json is required when " \o refField \o " is used in "
                  \o a \o ".json", "")

\* The entry of target became required and missing, with one more Error.
Escalated(target, refField) ==
    /\ target \in DOMAIN vResults
    /\ vResults[target].File = target \o ".json"
    /\ vResults[target].Required
    /\ ~vResults[target].Exists
    /\ vResults[target].HasErrors
    /\ vResults[target].ErrorsCount = CountBefore(target) + 1
    /\ Len(vResults[target].Errors) = Len(ErrorsBefore(target)) + 1
    /\ SubSeq(vResults[target].Errors, 1, Len(ErrorsBefore(target))) = ErrorsBefore(target)
    /\ IsConditionalIssue(vResults[target].Errors[Len(vResults[target].Errors)],
                          target, refField)

\* The conditional pass left the entry of target as it was.
NotEscalated(target, refField) ==
    /\ target \in DOMAIN vResults <=> target \in DOMAIN vFileResults
    /\ target \in DOMAIN vResults =>
          /\ vResults[target].Required = vFileResults[target].Required
          /\ vResults[target].Exists = vFileResults[target].Exists
          /\ \A k \in DOMAIN vResults[target].Errors :
                ~IsConditionalIssue(vResults[target].Errors[k], target, refField)
          /\ ~WasFetched(target) => vResults[target] = vFileResults[target]

ConditionalRule(refField, target) ==
    IF CarriesReference(refField) /\ ~WasFetched(target)
    THEN Escalated(target, refField)
    ELSE NotEscalated(target, refField)

\* C17: after the cross-reference passes, when a vehicle of the fetched
\* availability document carries a vehicle_type_id and vehicle_types was
\* not fetched, the result set holds a vehicle_types entry, required,
\* absent, in error, with one added Error, created if the table of the
\* version never listed it; likewise for pricing_plan_id and
\* system_pricing_plans; otherwise the pass leaves the entry unchanged.
C17_ConditionalEscalation ==
    ReturnedWithManifest =>
        /\ ConditionalRule("vehicle_type_id", "vehicle_types")
        /\ ConditionalRule("pricing_plan_id", "system_pricing_plans")

\* The same for the runs whose version is a key of the version table.
C17_EscalationForTableVersions ==
    (ReturnedWithManifest /\ EffectiveVersion \in SupportedSet) =>
        /\ ConditionalRule("vehicle_type_id", "vehicle_types")
        /\ ConditionalRule("pricing_plan_id", "system_pricing_plans")

\* A 1.0 feed whose bikes name a vehicle type: the table of 1.0 has no
\* vehicle_types, and the entry was created.
C17_CreatedWitness ==
    /\ ReturnedWithManifest
    /\ EffectiveVersion = "1.0"
    /\ CarriesReference("vehicle_type_id")
    /\ "vehicle_types" \notin DOMAIN vFileResults
    /\ Escalated("vehicle_types", "vehicle_type_id")

\* A feed of a version outside the table: the workers fetched vehicle_status
\* and a vehicle names a type, yet no entry was escalated.
C17_SkippedForUndefinedVersion ==
    /\ ReturnedWithManifest
    /\ EffectiveVersion = UndefinedVersion
    /\ CarriesReference("vehicle_type_id")
    /\ ~WasFetched("vehicle_types")
    /\ ~vResults["vehicle_types"].HasErrors

\* station_status was fetched and decodes.
StationStatusParses ==
    /\ ReturnedWithManifest
    /\ Served("station_status")
    /\ Decodes("station_status")

\* The station identifiers of station_information: none when the document
\* is absent, does not decode or lists no station.
KnownStations ==
    IF Served("station_information") /\ Decodes("station_information")
    THEN IdsOf(ServedItems("station_information"), "station_id")
    ELSE {}

\* The entry at index i - 1 of station_status names an unknown station.
DanglingStation(i) ==
    /\ i \in DOMAIN ServedItems("station_status")
    /\ StringOf(ServedItems("station_status")[i], "station_id") \notin KnownStations

StationReported(i) ==
    \A e \in EntriesOf("station_status") :
        /\ Cardinality(ErrorIssuesAt(vReport.Files[e],
               Idx("/data/stations/", i - 1, "/station_id"))) = 1
        /\ vReport.Files[e].HasErrors

\* C18: when station_status was fetched and parses, every entry of it whose
\* station_id is not among the station identifiers of station_information
\* (none when that document is absent, unparsable or lists no station) has
\* one Error issue in the station_status entry, at the path of its index.
C18_DanglingStationReported ==
    StationStatusParses =>
        \A i \in DOMAIN ServedItems("station_status") :
            DanglingStation(i) => StationReported(i)

\* The same, when station_information gives at least one identifier.
C18_ReportedWhenStationsKnown ==
    (StationStatusParses /\ KnownStations # {}) =>
        \A i \in DOMAIN ServedItems("station_status") :
            /\ DanglingStation(i) => StationReported(i)
            /\ ~DanglingStation(i) =>
                  \A e \in EntriesOf("station_status") :
                      ErrorIssuesAt(vReport.Files[e],
                          Idx("/data/stations/", i - 1, "/station_id")) = {}

\* When station_information gives no identifier, the pass adds nothing to
\* the station_status entry.
C18_NothingWhenNoStationKnown ==
    (StationStatusParses /\ KnownStations = {}) =>
        vResults["station_status"] = vFileResults["station_status"]

\* station_information lists s1, station_status reports on s9: the issue
\* is at index 0.
C18_ReportedWitness ==
    /\ StationStatusParses
    /\ KnownStations = {"s1"}
    /\ DanglingStation(1)
    /\ \E e \in EntriesOf("station_status") :
          ErrorIssuesAt(vReport.Files[e], "/data/stations/0/station_id") # {}

(***************************************************************************)
(* Claims about the requests of a run, checked under SpecValidate.         *)
(***************************************************************************)
\* The first request for the manifest did not yield it: a failure, or
\* not-found.
FirstManifestMissed == FetchMissed(Fetch(vManifestReqs[1], FALSE))

\* The first request for the manifest ended in a failure.
FirstManifestFailed == Fetch(vManifestReqs[1], FALSE).Error # ""

\* C21: in one run the manifest is requested at most twice, and the second
\* request, to the fallback URL, is made exactly when the given URL does
\* not end with gbfs.json and the first request did not yield the manifest
\* (failure or not-found); every document is requested at most once.
C21_RetryDiscipline ==
    vPc = "returned" =>
        /\ Len(vManifestReqs) \in {1, 2}
        /\ Len(vManifestReqs) = 2 <=> (~vUrlIsGbfsJson /\ FirstManifestMissed)
        /\ DOMAIN vResp \subseteq ReqNames(EffectiveRequirements) \cap ListedNames

\* The second request is made exactly when the given URL does not end with
\* gbfs.json and the first request ended in a failure; not-found is final.
C21_RetryOnFailureOnly ==
    vPc = "returned" =>
        /\ Len(vManifestReqs) \in {1, 2}
        /\ Len(vManifestReqs) = 2 <=> (~vUrlIsGbfsJson /\ FirstManifestFailed)
        /\ vGbfs.err \/ DOMAIN vResp = ReqNames(EffectiveRequirements) \cap ListedNames
        /\ vGbfs.err => vResp = <<>>

\* A base URL answered not-found: the run ended with one request made.
C21_NotFoundIsFinal ==
    /\ vPc = "returned"
    /\ ~vUrlIsGbfsJson
    /\ vManifestReqs = <<NotFound>>
    /\ ~vReport.Files[1].Exists

\* A base URL whose request failed: the fallback URL was requested and
\* served the manifest.
C21_FallbackWitness ==
    /\ vPc = "returned"
    /\ ~vUrlIsGbfsJson
    /\ Len(vManifestReqs) = 2
    /\ FirstManifestFailed
    /\ ~vGbfs.err
    /\ vReport.Files[1].URL = "alt"


\* ---------------------------------------------------------------------
\* The join barrier of validateFiles
\* ---------------------------------------------------------------------

\* The documents a worker was dispatched for: one per requirement.
Dispatched == ReqNames(WorkerRequirements)

\* A step of a worker that writes the results map writes keys the map did
\* not hold, each for a dispatched document, and is the last step of the
\* worker that owns the key.
WritesOwnKeyOnce ==
    /\ \A n \in DOMAIN wResults :
          n \in DOMAIN wResults' /\ wResults'[n] = wResults[n]
    /\ \A n \in DOMAIN wResults' \ DOMAIN wResults :
          /\ n \in Dispatched
          /\ wPhase = "running"
          /\ IF n \in DOMAIN wWorkers
             THEN /\ wWorkers[n].pc # "done"
                  /\ wWorkers'[n].pc = "done"
                  /\ DOMAIN wResults' = DOMAIN wResults \cup {n}
             ELSE ~wUnlisted /\ wUnlisted'
    /\ \A n \in DOMAIN wWorkers :
          wWorkers[n].pc = "done" => wWorkers'[n] = wWorkers[n] /\ n \in DOMAIN wResults

\* At the return of Validate every worker has published, and the map holds
\* one entry per requirement, all of which the report carries.
AllPublishedAtReturn ==
    wPhase = "returned" =>
        /\ wUnlisted
        /\ \A n \in DOMAIN wWorkers : wWorkers[n].pc = "done"
        /\ DOMAIN wResults = Dispatched
        /\ Len(wReport.Files) = 1 + Cardinality(Dispatched)
        /\ \A n \in Dispatched : Cardinality(WorkerEntriesOf(n)) = 1

PassNumbers == 1..5

\* Pass k of crossValidate applied to the result set r, with the identifiers
\* crossValidate extracted from the result set it was given.
CrossPass(k, r) ==
    CASE k = 1 -> validateVehicleTypeReferences(r, extractVehicleTypes(vFileResults),
                                                EffectiveVersion)
      [] k = 2 -> validatePricingPlanReferences(r, extractPricingPlans(vFileResults),
                                                EffectiveVersion)
      [] k = 3 -> validateStationIDReferences(r, extractStationIDs(vFileResults),
                                              EffectiveVersion)
      [] k = 4 -> checkConditionalVehicleTypes(r, EffectiveVersion)
      [] k = 5 -> checkConditionalPricingPlans(r, EffectiveVersion)

\* The passes applied in the order a sequence of pass numbers gives.
RECURSIVE CrossPasses(_, _)
CrossPasses(order, r) ==
    IF order = <<>> THEN r
    ELSE CrossPasses(Tail(order), CrossPass(Head(order), r))

PassOrders == {o \in [PassNumbers -> PassNumbers] : \A i, j \in PassNumbers : o[i] = o[j] => i = j}

\* C24: each of the five cross-reference passes is idempotent (applied twice
\* to the result set of a run it leaves the issue lists, counts and flags it
\* leaves when applied once) and the five passes in any order yield the
\* result set crossValidate yields.
C24_IdempotentAndOrderIndependent ==
    ReturnedWithManifest =>
        /\ \A k \in PassNumbers :
              CrossPass(k, CrossPass(k, vFileResults)) = CrossPass(k, vFileResults)
        /\ \A o \in PassOrders : CrossPasses(o, vFileResults) = vResults

\* The half the code has: the five passes in any order yield the result set
\* of crossValidate.
C24_OrderIndependent ==
    ReturnedWithManifest =>
        \A o \in PassOrders : CrossPasses(o, vFileResults) = vResults

\* A pass that finds nothing to report is idempotent.
C24_IdempotentWhenSilent ==
    ReturnedWithManifest =>
        \A k \in PassNumbers :
            CrossPass(k, vFileResults) = vFileResults =>
                CrossPass(k, CrossPass(k, vFileResults)) = vFileResults

\* A pass that reports something reports it again when applied again: the
\* second application appends the same issues and counts them once more.
C24_SecondPassAppendsAgain ==
    /\ ReturnedWithManifest
    /\ \E k \in PassNumbers : \E n \in DOMAIN CrossPass(k, vFileResults) :
          LET once == CrossPass(k, vFileResults)
              twice == CrossPass(k, once)
          IN  /\ n \in DOMAIN vFileResults
              /\ once[n].ErrorsCount = vFileResults[n].ErrorsCount + 1
              /\ twice[n].ErrorsCount = vFileResults[n].ErrorsCount + 2
              /\ Len(twice[n].Errors) = Len(vFileResults[n].Errors) + 2

\* ---------------------------------------------------------------------
\* Null members and the log of Coerce
\* ---------------------------------------------------------------------

\* Coerce was called on the document and returned a document.
Coerced == cPhase \in {"lenient", "again"} /\ ~cFirst.err

NullMembers(o) == {k \in DOMAIN o : o[k].t = "nil"}

\* The feed types whose collection the statement on null members names.
CollectionTypes ==
    {"station_status", "station_information", "vehicle_status",
     "free_bike_status", "vehicle_types"}

\* No member of the top-level object is null.
NoNullAtTop(d) == NullMembers(d.top) = {} /\ d.data # "null"

\* No member of an object of the collection is null.
NoNullInItems(d) == \A i \in DOMAIN d.items : NullMembers(d.items[i]) = {}

\* The two documents have the same members in the same places.
SameMembers(a, b) ==
    /\ DOMAIN a.top = DOMAIN b.top
    /\ a.data = b.data
    /\ DOMAIN a.obj = DOMAIN b.obj
    /\ DOMAIN a.items = DOMAIN b.items
    /\ \A i \in DOMAIN a.items : DOMAIN a.items[i] = DOMAIN b.items[i]

\* C25: with TreatNullAsAbsent the output of Coerce has no null member at
\* the top level nor in any object of the collection of the document
\* (stations, vehicles or bikes, vehicle types); without it the output has
\* every member of the input.
C25_NullsRemoved ==
    Coerced =>
        IF cOpts.TreatNullAsAbsent
        THEN /\ NoNullAtTop(cFirst.Data)
             /\ cType \in CollectionTypes => NoNullInItems(cFirst.Data)
        ELSE SameMembers(cFirst.Data, cIn)

\* What the code does: with the toggle the top level of every document and
\* the stations of station_status lose their null members, every other
\* member is kept; without it every member is kept.
C25_NullsRemovedWhereDeleted ==
    Coerced =>
        IF cOpts.TreatNullAsAbsent
        THEN /\ NoNullAtTop(cFirst.Data)
             /\ cType = "station_status" => NoNullInItems(cFirst.Data)
             /\ DOMAIN cFirst.Data.obj = DOMAIN cIn.obj
             /\ DOMAIN cFirst.Data.items = DOMAIN cIn.items
             /\ \A i \in DOMAIN cIn.items :
                   DOMAIN cFirst.Data.items[i] =
                       DOMAIN cIn.items[i]
                           \ (IF cType = "station_status"
                              THEN NullMembers(cIn.items[i]) ELSE {})
        ELSE SameMembers(cFirst.Data, cIn)

\* A station of station_information whose null member is in the output.
C25_NullKeptWitness ==
    /\ Coerced
    /\ cOpts.TreatNullAsAbsent
    /\ cType = "station_information"
    /\ \E i \in DOMAIN cFirst.Data.items : NullMembers(cFirst.Data.items[i]) # {}

\* A station of station_status whose null member was deleted.
C25_NullDeletedWitness ==
    /\ Coerced
    /\ cOpts.TreatNullAsAbsent
    /\ cType = "station_status"
    /\ \E i \in DOMAIN cIn.items :
          NullMembers(cIn.items[i]) # {} /\ cFirst.Data.items[i] = EmptyObj

\* The path Coerce logs for the object at index i - 1 of the collection.
ItemPathOf(t, d, i) ==
    (CASE t \in {"station_status", "station_information"} -> "/data/stations/"
       [] t \in {"vehicle_status", "free_bike_status"} -> "/data/" \o d.key \o "/"
       [] t = "vehicle_types" -> "/data/vehicle_types/"
       [] t = "geofencing_zones" -> "/data/geofencing_zones/features/0/properties/rules/"
       [] OTHER -> "/data/")
    \o ToString(i - 1)

\* The members of object a that object b does not hold with the same value.
ChangedIn(a, b) == {k \in DOMAIN a : k \notin DOMAIN b \/ b[k] # a[k]}

\* The members, as (path, field), whose value in the output of the first
\* call differs from their value in the input, the removed ones included.
ChangedMembers ==
    {<<"", k>> : k \in ChangedIn(cIn.top, cFirst.Data.top)}
    \cup (IF cIn.data # cFirst.Data.data THEN {<<"", "data">>} ELSE {})
    \cup {<<"/data", k>> : k \in ChangedIn(cIn.obj, cFirst.Data.obj)}
    \cup UNION {{<<ItemPathOf(cType, cIn, i), k>> :
                    k \in ChangedIn(cIn.items[i], cFirst.Data.items[i])}
                : i \in DOMAIN cIn.items}

\* The members the log of the first call has a record for.
LoggedMembers == {<<cFirst.Log[k].Path, cFirst.Log[k].Field>> : k \in DOMAIN cFirst.Log}

\* C26: a coercion is logged if and only if the representation changed: the
\* log of a Coerce call holds exactly one record per member whose value in
\* the output differs from its value in the input, removed members
\* included, and none for another member; the log is empty exactly when the
\* output equals the input.
C26_LoggedIffChanged ==
    Coerced =>
        /\ LoggedMembers = ChangedMembers
        /\ Len(cFirst.Log) = Cardinality(ChangedMembers)
        /\ (cFirst.Log = <<>>) <=> (cFirst.Data = cIn)

\* The value is a null, or an integer literal float64 cannot hold.
NullOrBeyondFloat64(x) ==
    x.t = "nil" \/ (x.t = "number" /\ Float64Text(x.v) # x.v)

\* The value the input holds at a (path, field) of ChangedMembers.
InputValueAt(m) ==
    IF m[1] = "" THEN (IF m[2] = "data" THEN VNull ELSE cIn.top[m[2]])
    ELSE IF m[1] = "/data" THEN cIn.obj[m[2]]
    ELSE LET i == CHOOSE i \in DOMAIN cIn.items : ItemPathOf(cType, cIn, i) = m[1]
         IN  cIn.items[i][m[2]]

\* What the code keeps of it: every record is for a member whose value
\* changed, a member has at most one record, and a changed member without
\* a record was a null that was deleted or a literal float64 cannot hold.
C26_LoggedImpliesChanged ==
    Coerced =>
        /\ LoggedMembers \subseteq ChangedMembers
        /\ Len(cFirst.Log) = Cardinality(LoggedMembers)
        /\ \A m \in ChangedMembers \ LoggedMembers : NullOrBeyondFloat64(InputValueAt(m))
        /\ \A k \in DOMAIN cFirst.Log : cFirst.Log[k].From # cFirst.Log[k].To

\* A null member deleted from the top level with an empty log.
C26_DeletedUnloggedWitness ==
    /\ Coerced
    /\ cOpts.TreatNullAsAbsent
    /\ NullMembers(cIn.top) # {}
    /\ cFirst.Data.top = EmptyObj
    /\ cFirst.Log = <<>>

\* A string rewritten to a boolean with its one record.
C26_LoggedWitness ==
    /\ Coerced
    /\ Len(cFirst.Log) = 1
    /\ cFirst.Log[1].FromType = "string"
    /\ cFirst.Log[1].ToType = "bool"
    /\ ChangedMembers = LoggedMembers

\* ---------------------------------------------------------------------
\* The hasErrors flag and the severity of the issues
\* ---------------------------------------------------------------------

\* C27: in every report Validate returns, hasErrors of an entry is true
\* exactly when its issue list holds an issue of Error severity, and
\* summary.hasErrors is true only if some entry holds such an issue: a
\* document with Warning issues only is not flagged.
C27_FlagIffErrorIssue ==
    vPc = "returned" =>
        /\ \A i \in DOMAIN vReport.Files :
              vReport.Files[i].HasErrors <=> HasErrorIssue(vReport.Files[i])
        /\ vReport.Summary.HasErrors =>
              \E i \in DOMAIN vReport.Files : HasErrorIssue(vReport.Files[i])

\* What the code keeps of it: an entry with an Error issue is flagged, and
\* a flagged entry has an issue, of some severity.
C27_ErrorIssueIsFlagged ==
    vPc = "returned" =>
        \A i \in DOMAIN vReport.Files :
            /\ HasErrorIssue(vReport.Files[i]) => vReport.Files[i].HasErrors
            /\ vReport.Files[i].HasErrors => vReport.Files[i].Errors # <<>>

\* A report whose only issues are warnings of structural validation, with a
\* flagged entry and a flagged summary.
C27_WarningOnlyFlagged ==
    /\ vPc = "returned"
    /\ \A i \in DOMAIN vReport.Files : ~HasErrorIssue(vReport.Files[i])
    /\ \E i \in DOMAIN vReport.Files :
          vReport.Files[i].HasErrors /\ vReport.Files[i].Exists
    /\ vReport.Summary.HasErrors

\* ---------------------------------------------------------------------
\* Two runs of Validate on the same inputs
\* ---------------------------------------------------------------------

\* The manifest the run decoded.
ManifestUsed == Fetch(vManifestReqs[Len(vManifestReqs)], FALSE).Body

\* The reports another run can return that made the choices of this run up
\* to the aggregation: same options, URL, responses, feed list and results.
OtherRunReports ==
    {ValidateAggregate(vGbfs.result, vResults, order, vOpts.LenientMode,
                       DetectedVersion(vGbfs.feed), EffectiveVersion)
        : order \in MapOrders(vResults, EffectiveRequirements)}

\* The name-to-URL maps another run can build from the manifest of this run.
OtherRunFeedURLs ==
    {buildFeedURLMap([vGbfs.feed EXCEPT !.Feeds = feeds]) : feeds \in GBFSDataFeeds(ManifestUsed)}

\* C28: Validate is deterministic: a second run with the same options, the
\* same manifest URL and the same fetch outcomes returns the report of the
\* first, with the file entries in the same order, and builds the same
\* name-to-URL map from a manifest that groups its feeds per language.
C28_Deterministic ==
    ReturnedWithManifest =>
        /\ OtherRunReports = {vReport}
        /\ OtherRunFeedURLs = {buildFeedURLMap(vGbfs.feed)}

\* What the code keeps of it: the manifest entry is first, and every run
\* that fetched the same documents reports the same summary and the same
\* set of document entries, in some order; a manifest with a flat feed list
\* gives one name-to-URL map.
C28_SameEntriesSomeOrder ==
    ReturnedWithManifest =>
        /\ vReport \in OtherRunReports
        /\ \A r \in OtherRunReports :
              /\ r.Summary = vReport.Summary
              /\ r.Files[1] = vReport.Files[1]
              /\ r.Files[1].File = "gbfs.json"
              /\ Len(r.Files) = Len(vReport.Files)
              /\ {r.Files[i] : i \in DOMAIN r.Files}
                     = {vReport.Files[i] : i \in DOMAIN vReport.Files}
        /\ ManifestUsed.Layout = "flat" =>
              OtherRunFeedURLs = {buildFeedURLMap(vGbfs.feed)}

\* Two reports of the same inputs whose file entries are in different orders.
C28_TwoOrdersWitness ==
    /\ ReturnedWithManifest
    /\ \E r \in OtherRunReports :
          /\ r # vReport
          /\ r.Files[2] = vReport.Files[Len(vReport.Files)]
          /\ r.Files[2] # vReport.Files[2]

\* A manifest grouped per language from which one run takes a feed list that
\* names a document and another run a list that names none.
C28_TwoLanguagesWitness ==
    /\ ReturnedWithManifest
    /\ ManifestUsed.Layout = "languages"
    /\ DOMAIN buildFeedURLMap(vGbfs.feed) # {}
    /\ \E m \in OtherRunFeedURLs : DOMAIN m = {}

\* ---------------------------------------------------------------------
\* Lenient and strict validation of the same bytes
\* ---------------------------------------------------------------------

\* The Error issues of an issue list.
ErrorIssues(issues) ==
    {issues[k] : k \in {j \in DOMAIN issues : issues[j].Severity = SeverityError}}

\* Both workers have validated the document.
BothValidated == cPhase \in {"lenient", "again"}

\* C29: lenient mode never introduces errors: whatever the document, the
\* feed type and the coercion toggles, every Error issue of structural
\* validation in the lenient run is an issue of the strict run on the same
\* bytes, so a document that passes strict validation passes lenient
\* validation.
C29_LenientErrorsWithinStrict ==
    BothValidated =>
        /\ ErrorIssues(cLenient) \subseteq ErrorIssues(cStrict)
        /\ ErrorIssues(cStrict) = {} => ErrorIssues(cLenient) = {}

\* What the code keeps of it: with TreatNullAsAbsent off, and also for a
\* document without a null member, the lenient errors are strict errors.
C29_WithinStrictWithoutNulls ==
    (BothValidated
     /\ (~cOpts.TreatNullAsAbsent
         \/ (cIn.data # "null" /\ NullMembers(cIn.top) = {}
             /\ \A i \in DOMAIN cIn.items : NullMembers(cIn.items[i]) = {})))
    => ErrorIssues(cLenient) \subseteq ErrorIssues(cStrict)

\* An Error of the lenient run alone: a member the strict run found present
\* with the value null was deleted by Coerce and is reported as missing.
C29_ErrorIntroduced ==
    /\ BothValidated
    /\ ~cFirst.err
    /\ cOpts.TreatNullAsAbsent
    /\ \E e \in ErrorIssues(cLenient) \ ErrorIssues(cStrict) :
          e.Message = "last_updated is required"

\* A strict Error that coercion removes: the lenient run is the more
\* permissive one where a string is rewritten to the canonical type.
C29_ErrorRemoved ==
    /\ BothValidated
    /\ ~cFirst.err
    /\ ErrorIssues(cLenient) \subseteq ErrorIssues(cStrict)
    /\ ErrorIssues(cStrict) \ ErrorIssues(cLenient) # {}

\* ---------------------------------------------------------------------
\* The content cross-reference validation reads
\* ---------------------------------------------------------------------

\* The bytes structural validation examined for a document of the run: the
\* output of Coerce in a lenient run, the bytes as fetched otherwise.
ExaminedData(n) ==
    LET r == vFileResults[n]
        c == Coerce(r.RawData, n, DefaultLenientOptions)
    IN  IF r.Exists /\ vOpts.LenientMode /\ ~c.err THEN c.Data ELSE r.RawData

\* The result set of the run, had every document been published with the
\* bytes structural validation examined.
PublishedAsExamined ==
    Table([n \in DOMAIN vFileResults |->
              [vFileResults[n] EXCEPT !.RawData = ExaminedData(n)]])

\* C30: cross-reference validation examines the content structural
\* validation examined: in a lenient run, a document whose coerced form has
\* no structural Error gets from the cross-reference passes the issues it
\* would get had every document been published in its coerced form.
C30_CrossSeesCoercedContent ==
    (ReturnedWithManifest /\ vOpts.LenientMode) =>
        \A n \in DOMAIN vFileResults :
            (vFileResults[n].Exists /\ ~HasErrorIssue(vFileResults[n])) =>
                vResults[n].Errors =
                    crossValidate(PublishedAsExamined, EffectiveVersion)[n].Errors

\* What the code keeps of it: when Coerce rewrites no document of the run,
\* the passes report what they would report on the coerced forms.
C30_SameWhenNothingRewritten ==
    (ReturnedWithManifest /\ vOpts.LenientMode
     /\ \A n \in DOMAIN vFileResults : ExaminedData(n) = vFileResults[n].RawData)
    => \A n \in DOMAIN vFileResults :
           vResults[n].Errors =
               crossValidate(PublishedAsExamined, EffectiveVersion)[n].Errors

\* A lenient run: station_information lists s1, station_status reports on
\* s9 with is_installed "1"; the coerced document has no structural Error,
\* and its entry has no issue for the unknown station.
C30_DanglingUnreported ==
    /\ ReturnedWithManifest
    /\ vOpts.LenientMode
    /\ Served("station_status")
    /\ KnownStations = {"s1"}
    /\ StringOf(vFileResults["station_status"].RawData.items[1], "station_id") = "s9"
    /\ vFileResults["station_status"].RawData.items[1]["is_installed"] = VStr("1")
    /\ ExaminedData("station_status").items[1]["is_installed"] = VBool(TRUE)
    /\ vResults["station_status"].Errors = <<>>
    /\ ~vResults["station_status"].HasErrors

\* The same run with station_status in canonical types: the unknown station
\* is reported.
C30_CanonicalDanglingReported ==
    /\ ReturnedWithManifest
    /\ vOpts.LenientMode
    /\ Served("station_status")
    /\ KnownStations = {"s1"}
    /\ StringOf(vFileResults["station_status"].RawData.items[1], "station_id") = "s9"
    /\ vFileResults["station_status"].RawData.items[1]["is_installed"] = VBool(TRUE)
    /\ Len(vResults["station_status"].Errors) = 1
====
